---- MODULE Spec2Model ----
(***************************************************************************)
(* Fence-parameter parsing, content normalisation and fence location of    *)
(* the code-block plugin (src/src/params.ts).                               *)
(*                                                                         *)
(* A JavaScript string is a sequence of one-character strings; null is the *)
(* one-element sequence <<"null">>, which no text can equal because its    *)
(* element is not a character.  Regular expressions are written out as the *)
(* matching they perform (leftmost match, greedy quantifiers).             *)
(***************************************************************************)
EXTENDS Integers, Sequences, FiniteSets, TLC

VARIABLES
  pc,          \* position of the caller: "start", then one value per call made
  tokens,      \* the words the fence line under test was written from
  hlEntries,   \* the entries its hl list was written from
  fenceLine,   \* argument of parseCodeblockParameters
  params,      \* its result (NoParams before the call)
  text,        \* argument of normalizeCodeContent
  once,        \* normalizeCodeContent(text)
  twice,       \* normalizeCodeContent(once)
  doc,         \* the items the section under test was written from
  section,     \* sectionText: the markdown source of the section
  targetText,  \* codeText: content of the rendered block that is looked for
  targetLang,  \* language: its language, or null
  langTable,   \* codeBlockLanguages: the language table of the settings, or null
  lineHint,    \* startLine: the 1-based line hint of findFenceLineByLine (0: none)
  result,      \* what the locating function returned (NoResult before the call)
  els,         \* the <pre> elements rendered so far, the last one in the document
  settings,    \* plugin.settings, as far as the decorators read them
  tasks,       \* the asynchronous calls that wait for a read of the source
  memo,        \* the functions of params.ts as tables over the rendered texts
  highlighter,            \* plugin.settings.highlighter
  highlighterState,       \* the singleton of highlighter/state.ts, NoState for null
  highlighterStyleEl,     \* plugin.highlighterStyleEl is set
  adoptedStyleSheets,     \* the plugin's sheets in document.adoptedStyleSheets
  cleanupRegistered,      \* registerHighlighter has registered its teardown
  decorationVersion,      \* the module variable of the editor extension
  currentVersion,         \* the variable of createHighlighterEditorExtension
  views,                  \* the view plugins of the open editors
  calls,                  \* the HighlighterState methods the last step called
  lastUpdate,             \* what the last update of a view plugin did
  reg,                    \* what registerCodeBlocks has scheduled and attached
  decorations,            \* what buildCodeBlockDecorations added to its builder
  blocks,                 \* what findCodeBlocks returned
  copyBtn                 \* the copy button of a header and the calls that hold it

parseVars == <<tokens, hlEntries, fenceLine, params>>
normVars == <<text, once, twice>>
locVars == <<doc, section, targetText, targetLang, langTable, lineHint, result>>
domVars == <<els, settings, tasks, memo>>
hlVars ==
  <<highlighter, highlighterState, highlighterStyleEl, adoptedStyleSheets, cleanupRegistered,
    decorationVersion, currentVersion, views, calls, lastUpdate>>
regVars == <<reg>>
edVars == <<decorations, blocks>>
copyVars == <<copyBtn>>
moreVars == <<edVars, copyVars>>
laterVars == <<domVars, hlVars, regVars, moreVars>>
notDomVars == <<parseVars, normVars, locVars, hlVars, regVars, moreVars>>
notHlVars == <<parseVars, normVars, locVars, domVars, regVars, moreVars>>
notRegVars == <<parseVars, normVars, locVars, domVars, hlVars, moreVars>>
vars == <<pc, parseVars, normVars, locVars, laterVars>>

null == <<"null">>
NaN == -1
NoParams == [none |-> TRUE]
NoResult == [none |-> TRUE]

(***************************************************************************)
(* Characters                                                              *)
(***************************************************************************)
WS == {" ", "\t", "\r", "\n"}
Digits == {"0", "1", "2", "3", "4", "5", "6", "7", "8", "9"}
LowerLetters == {"a", "b", "c", "d", "e", "f", "g", "h", "i", "j", "k", "l", "m",
                 "n", "o", "p", "q", "r", "s", "t", "u", "v", "w", "x", "y", "z"}
UpperLetters == {"A", "B", "C", "D", "E", "F", "G", "H", "I", "J", "K", "L", "M",
                 "N", "O", "P", "Q", "R", "S", "T", "U", "V", "W", "X", "Y", "Z"}
HexChars == Digits \cup {"a", "b", "c", "d", "e", "f", "A", "B", "C", "D", "E", "F"}
LangChars == LowerLetters \cup UpperLetters \cup Digits \cup {"+", "#", "-"}
\* The backquote, which the language cannot write inside a string.
Backquote == "BQ"
FenceChars == {Backquote, "~"}
HlChars == Digits \cup {",", "-"} \cup WS
Quotes == {"\"", "'"}

LowerOf(c) ==
  CASE c = "A" -> "a" [] c = "B" -> "b" [] c = "C" -> "c" [] c = "D" -> "d"
    [] c = "E" -> "e" [] c = "F" -> "f" [] c = "G" -> "g" [] c = "H" -> "h"
    [] c = "I" -> "i" [] c = "J" -> "j" [] c = "K" -> "k" [] c = "L" -> "l"
    [] c = "M" -> "m" [] c = "N" -> "n" [] c = "O" -> "o" [] c = "P" -> "p"
    [] c = "Q" -> "q" [] c = "R" -> "r" [] c = "S" -> "s" [] c = "T" -> "t"
    [] c = "U" -> "u" [] c = "V" -> "v" [] c = "W" -> "w" [] c = "X" -> "x"
    [] c = "Y" -> "y" [] c = "Z" -> "z" [] OTHER -> c

DigitVal(c) ==
  CASE c = "0" -> 0 [] c = "1" -> 1 [] c = "2" -> 2 [] c = "3" -> 3 [] c = "4" -> 4
    [] c = "5" -> 5 [] c = "6" -> 6 [] c = "7" -> 7 [] c = "8" -> 8 [] c = "9" -> 9

(***************************************************************************)
(* String primitives                                                       *)
(***************************************************************************)
toLowerCase(s) == [i \in 1..Len(s) |-> LowerOf(s[i])]

Drop(s, n) == SubSeq(s, n + 1, Len(s))

\* Length of the longest prefix of s, from position i on, whose characters are in C.
RunLen(s, i, C) ==
  IF \A j \in i..Len(s) : s[j] \in C
    THEN Len(s) - i + 1
    ELSE (CHOOSE j \in i..Len(s) : s[j] \notin C /\ \A k \in i..(j - 1) : s[k] \in C) - i

\* The longest run of characters not in C, from position i on.
RunLenNot(s, i, C) ==
  IF \A j \in i..Len(s) : s[j] \notin C
    THEN Len(s) - i + 1
    ELSE (CHOOSE j \in i..Len(s) : s[j] \in C /\ \A k \in i..(j - 1) : s[k] \notin C) - i

trimStart(s) == Drop(s, RunLen(s, 1, WS))

trimEnd(s) ==
  IF \A j \in 1..Len(s) : s[j] \in WS
    THEN <<>>
    ELSE SubSeq(s, 1, CHOOSE j \in 1..Len(s) :
                        s[j] \notin WS /\ \A k \in (j + 1)..Len(s) : s[k] \in WS)

trim(s) == trimEnd(trimStart(s))

includes(s, c) == \E i \in 1..Len(s) : s[i] = c

RECURSIVE split(_, _)
split(s, sep) ==
  IF ~includes(s, sep)
    THEN <<s>>
    ELSE LET i == RunLenNot(s, 1, {sep}) + 1
         IN  <<SubSeq(s, 1, i - 1)>> \o split(Drop(s, i), sep)

RECURSIVE join(_, _)
join(parts, sep) ==
  IF parts = <<>> THEN <<>>
  ELSE IF Len(parts) = 1 THEN parts[1]
  ELSE parts[1] \o sep \o join(Tail(parts), sep)

RECURSIVE digitsValue(_)
digitsValue(s) ==
  IF s = <<>> THEN 0 ELSE 10 * digitsValue(SubSeq(s, 1, Len(s) - 1)) + DigitVal(s[Len(s)])

\* parseInt(s, 10) on text without a sign: leading white space is skipped, the
\* leading run of digits is the value, and there is none (NaN) without a digit.
parseInt(s) ==
  LET t == trimStart(s)
      n == RunLen(t, 1, Digits)
  IN  IF n = 0 THEN NaN ELSE digitsValue(SubSeq(t, 1, n))

\* Case-insensitive match of the lower-case literal lit at position i of s.
LitAt(s, i, lit) ==
  /\ i + Len(lit) - 1 <= Len(s)
  /\ \A k \in 1..Len(lit) : LowerOf(s[i + k - 1]) = lit[k]

\* The least position in 1..Len(s) that satisfies At, or 0.
Leftmost(s, At(_)) ==
  IF \E i \in 1..Len(s) : At(i)
    THEN CHOOSE i \in 1..Len(s) : At(i) /\ \A j \in 1..(i - 1) : ~At(j)
    ELSE 0

(***************************************************************************)
(* parseCodeblockParameters                                                *)
(***************************************************************************)
DefaultLineNumbers == [enabled |-> "null", offset |-> 1]

DefaultParams ==
  [language |-> <<>>, title |-> <<>>, langColor |-> <<>>, titleColor |-> <<>>,
   lineNumbers |-> DefaultLineNumbers, highlights |-> <<>>]

\* fenceLine.replace(/^[BQ~]{3,}\s*/, "").trim(), BQ the backquote
trimmedOf(line) ==
  LET n == RunLen(line, 1, FenceChars)
  IN  trim(IF n >= 3 THEN Drop(line, n + RunLen(line, n + 1, WS)) ELSE line)

\* Mutant of langMatch: the class [a-zA-Z]+ instead of [a-zA-Z0-9+#-]+.
langMatchLettersOnly(trimmed) ==
  LET n == RunLen(trimmed, 1, LowerLetters \cup UpperLetters)
  IN  IF n = 0 THEN null ELSE SubSeq(trimmed, 1, n)

\* trimmed.match(/^([a-zA-Z0-9+#-]+)/): the captured text, or null.
langMatch(trimmed) ==
  LET n == RunLen(trimmed, 1, LangChars)
  IN  IF n = 0 THEN null ELSE SubSeq(trimmed, 1, n)

\* Position after <key>[:=]\s* when that matches at i, else 0.
AfterKey(s, i, key) ==
  LET c == i + Len(key)
  IN  IF LitAt(s, i, key) /\ c <= Len(s) /\ s[c] \in {":", "="}
        THEN c + 1 + RunLen(s, c + 1, WS)
        ELSE 0

\* title[:=]\s*["']([^"']+)["'] at position i: the quoted text, or null.
titleQuotedAt(s, i) ==
  LET j == AfterKey(s, i, <<"t", "i", "t", "l", "e">>)
  IN  IF j = 0 \/ j > Len(s) THEN null
      ELSE IF s[j] \notin Quotes THEN null
      ELSE LET n == RunLenNot(s, j + 1, Quotes)
           IN  IF n >= 1 /\ j + n + 1 <= Len(s) THEN SubSeq(s, j + 1, j + n) ELSE null

\* title[:=]\s*(\S+) at position i: the bare word, or null.
titleBareAt(s, i) ==
  LET j == AfterKey(s, i, <<"t", "i", "t", "l", "e">>)
  IN  IF j = 0 \/ j > Len(s) THEN null
      ELSE LET n == RunLenNot(s, j, WS)
           IN  IF n >= 1 THEN SubSeq(s, j, j + n - 1) ELSE null

\* titleMatch[1] || titleMatch[2] of the leftmost match, or null.
titleMatch(s) ==
  LET At(i) == titleQuotedAt(s, i) # null \/ titleBareAt(s, i) # null
      p == Leftmost(s, At)
  IN  IF p = 0 THEN null
      ELSE IF titleQuotedAt(s, p) # null THEN titleQuotedAt(s, p) ELSE titleBareAt(s, p)

\* <key>[:=]\s*#?([0-9a-fA-F]{6}) at position i: the six digits, or null.
colorAt(s, i, key) ==
  LET j == AfterKey(s, i, key)
      k == IF j # 0 /\ j <= Len(s) /\ s[j] = "#" THEN j + 1 ELSE j
  IN  IF j # 0 /\ k + 5 <= Len(s) /\ (\A m \in k..(k + 5) : s[m] \in HexChars)
        THEN SubSeq(s, k, k + 5)
        ELSE null

colorMatch(s, key) ==
  LET At(i) == colorAt(s, i, key) # null
      p == Leftmost(s, At)
  IN  IF p = 0 THEN null ELSE colorAt(s, p, key)

langColorMatch(s) == colorMatch(s, <<"l", "a", "n", "g", "-", "c", "o", "l", "o", "r">>)
titleColorMatch(s) == colorMatch(s, <<"t", "i", "t", "l", "e", "-", "c", "o", "l", "o", "r">>)

\* Mutant of lnAt: ln[:=]\s*(\S+), any word as the value.
lnAtAnyWord(s, i) ==
  LET j == AfterKey(s, i, <<"l", "n">>)
  IN  IF j = 0 \/ j > Len(s) \/ RunLenNot(s, j, WS) = 0 THEN null
      ELSE SubSeq(s, j, j + RunLenNot(s, j, WS) - 1)

\* ln[:=]\s*(true|false|\d+) at position i: the captured value, or null.
lnAt(s, i) ==
  LET j == AfterKey(s, i, <<"l", "n">>)
  IN  IF j = 0 THEN null
      ELSE IF LitAt(s, j, <<"t", "r", "u", "e">>) THEN SubSeq(s, j, j + 3)
      ELSE IF LitAt(s, j, <<"f", "a", "l", "s", "e">>) THEN SubSeq(s, j, j + 4)
      ELSE IF RunLen(s, j, Digits) >= 1 THEN SubSeq(s, j, j + RunLen(s, j, Digits) - 1)
      ELSE null

\* Mutant of lnMatch: the pattern anchored at the start of the text (^ln...).
lnMatchAtStart(s) == IF s # <<>> /\ lnAt(s, 1) # null THEN lnAt(s, 1) ELSE null

lnMatch(s) ==
  LET At(i) == lnAt(s, i) # null
      p == Leftmost(s, At)
  IN  IF p = 0 THEN null ELSE lnAt(s, p)

\* The lineNumbers field written from lnMatch (params.ts 76-89).
lineNumbersOf(s) ==
  LET m == lnMatch(s)
      val == toLowerCase(m)
  IN  IF m = null THEN DefaultLineNumbers
      ELSE IF val = <<"t", "r", "u", "e">> THEN [enabled |-> "true", offset |-> 1]
      ELSE IF val = <<"f", "a", "l", "s", "e">> THEN [enabled |-> "false", offset |-> 1]
      ELSE [enabled |-> "true", offset |-> parseInt(val)]

\* hl[:=]\s*([0-9,\-\s]+) at position i: the captured list text, or null.  The
\* class holds white space, so when nothing of the class follows the white space
\* that \s* took, \s* gives its last character back to the group.
hlAt(s, i) ==
  LET c == i + 2
      p == c + 1
      w == RunLen(s, p, WS)
  IN  IF ~(LitAt(s, i, <<"h", "l">>) /\ c <= Len(s) /\ s[c] \in {":", "="}) THEN null
      ELSE IF p > Len(s) \/ s[p] \notin HlChars THEN null
      ELSE IF p + w <= Len(s) /\ s[p + w] \in HlChars
             THEN SubSeq(s, p + w, p + w + RunLen(s, p + w, HlChars) - 1)
             ELSE <<s[p + w - 1]>>

hlMatch(s) ==
  LET At(i) == hlAt(s, i) # null
      p == Leftmost(s, At)
  IN  IF p = 0 THEN null ELSE hlAt(s, p)

\* Mutant of rangeLines: the loop bound i < end instead of i <= end.
rangeLinesExclusive(start, end) ==
  IF end <= start THEN <<>> ELSE [k \in 1..(end - start) |-> start + k - 1]

\* start, start+1, ..., end (empty when start > end): the loop of params.ts 105-107.
rangeLines(start, end) ==
  IF end < start THEN <<>> ELSE [k \in 1..(end - start + 1) |-> start + k - 1]

\* What one entry of the hl list appends to highlights (params.ts 100-114).
expandPart(part) ==
  IF includes(part, "-")
    THEN LET nums == split(part, "-")
             start == parseInt(trim(nums[1]))
             end == parseInt(trim(nums[2]))
         IN  IF start # NaN /\ end # NaN THEN rangeLines(start, end) ELSE <<>>
    ELSE LET num == parseInt(part)
         IN  IF num # NaN THEN <<num>> ELSE <<>>

RECURSIVE expandParts(_)
expandParts(parts) ==
  IF parts = <<>> THEN <<>> ELSE expandPart(parts[1]) \o expandParts(Tail(parts))

\* hlStr.split(",").map(trim).filter(Boolean)
hlParts(hlStr) ==
  SelectSeq([i \in 1..Len(split(hlStr, ",")) |-> trim(split(hlStr, ",")[i])],
            LAMBDA part : part # <<>>)

highlightsOf(s) ==
  IF hlMatch(s) = null THEN <<>> ELSE expandParts(hlParts(hlMatch(s)))

colorOf(m) == IF m = null THEN <<>> ELSE <<"#">> \o m

\* params.language, params.ts 47-53
languageOf(trimmed) ==
  IF langMatch(trimmed) = null THEN <<>> ELSE toLowerCase(langMatch(trimmed))

parseCodeblockParameters(line) ==
  IF line = null \/ line = <<>> THEN DefaultParams
  ELSE LET trimmed == trimmedOf(line)
       IN  IF trimmed = <<>> THEN DefaultParams
           ELSE [language |-> languageOf(trimmed),
                 title |-> IF titleMatch(trimmed) = null THEN <<>> ELSE titleMatch(trimmed),
                 langColor |-> colorOf(langColorMatch(trimmed)),
                 titleColor |-> colorOf(titleColorMatch(trimmed)),
                 lineNumbers |-> lineNumbersOf(trimmed),
                 highlights |-> highlightsOf(trimmed)]

(***************************************************************************)
(* normalizeCodeContent, normalizeCodeContentLoose                         *)
(***************************************************************************)
\* text.replace(/\r\n/g, "\n")
RECURSIVE replaceCrLf(_)
replaceCrLf(s) ==
  IF s = <<>> THEN <<>>
  ELSE IF Len(s) >= 2 /\ s[1] = "\r" /\ s[2] = "\n" THEN <<"\n">> \o replaceCrLf(Drop(s, 2))
  ELSE <<s[1]>> \o replaceCrLf(Tail(s))

\* lines.pop() when the last line is empty
dropLastIfEmpty(lines) ==
  IF Len(lines) > 0 /\ lines[Len(lines)] = <<>> THEN SubSeq(lines, 1, Len(lines) - 1) ELSE lines

mapLines(lines, F(_)) == [i \in 1..Len(lines) |-> F(lines[i])]

normalizeCodeContent(t) ==
  LET normalized == replaceCrLf(IF t = null THEN <<>> ELSE t)
      lines == dropLastIfEmpty(split(normalized, "\n"))
  IN  join(mapLines(lines, trimEnd), <<"\n">>)

normalizeCodeContentLoose(t) ==
  join(mapLines(split(normalizeCodeContent(t), "\n"), trimStart), <<"\n">>)


(***************************************************************************)
(* resolveLanguageConfig.  The language table is the sequence of its       *)
(* entries, in the order Object.entries lists them.                        *)
(***************************************************************************)
\* codeBlockLanguages[lang], then the scan of the aliases: the name, or null.
resolveLanguageConfig(language, codeBlockLanguages) ==
  IF language = null \/ language = <<>> \/ codeBlockLanguages = null THEN null
  ELSE LET lang == toLowerCase(language)
           table == codeBlockLanguages
           direct == {i \in 1..Len(table) : table[i].name = lang}
           byAlias == {i \in 1..Len(table) :
                         \E k \in 1..Len(table[i].aliases) : table[i].aliases[k] = lang}
       IN  IF direct # {} THEN lang
           ELSE IF byAlias # {}
             THEN table[CHOOSE i \in byAlias : \A j \in byAlias : i <= j].name
           ELSE null

(***************************************************************************)
(* stripCalloutPrefix and the fence patterns                               *)
(***************************************************************************)
\* line.replace(/^\s*(?:>\s*)+/, ""): the leading run of white space and > is
\* removed when it holds a >.
stripCalloutPrefix(line) ==
  LET n == RunLen(line, 1, WS \cup {">"})
  IN  IF \E i \in 1..n : line[i] = ">" THEN Drop(line, n) ELSE line

\* /^\s*>/.test(line)
isCalloutLine(line) ==
  LET n == RunLen(line, 1, WS)
  IN  n < Len(line) /\ line[n + 1] = ">"

\* strippedLine.match(/^([BQ~]{3,})(.*)$/): the dot matches no line terminator
\* and $ only the end of the text.
LineTerminators == {"\n", "\r"}

fenceMatch(strippedLine) ==
  /\ RunLen(strippedLine, 1, FenceChars) >= 3
  /\ \A i \in 1..Len(strippedLine) : strippedLine[i] \notin LineTerminators

\* Mutant of closingFence: a closing fence of either fence character.
closingFenceAnyChar(fenceChar, strippedLine) ==
  LET n == RunLen(strippedLine, 1, FenceChars)
  IN  n >= 3 /\ \A i \in (n + 1)..Len(strippedLine) : strippedLine[i] \in WS

\* new RegExp("^" + fenceChar + "{3,}\\s*$").test(strippedLine)
closingFence(fenceChar, strippedLine) ==
  LET n == RunLen(strippedLine, 1, {fenceChar})
  IN  n >= 3 /\ \A i \in (n + 1)..Len(strippedLine) : strippedLine[i] \in WS

\* The scanners' variables inBlock, fenceChar, fenceLine, contentLines, with
\* what they collect: entries (extractCalloutFenceEntries), candidates and the
\* value returned from inside the loop (findFenceLineForCodeBlock).
ScanStart ==
  [inBlock |-> FALSE, fenceChar |-> "", fenceLine |-> <<>>, contentLines |-> <<>>,
   entries |-> <<>>, candidates |-> <<>>, returned |-> null]

resetBlock(st) ==
  [st EXCEPT !.inBlock = FALSE, !.fenceChar = "", !.fenceLine = <<>>, !.contentLines = <<>>]

openBlock(st, strippedLine) ==
  [st EXCEPT !.inBlock = TRUE, !.fenceChar = strippedLine[1],
             !.fenceLine = strippedLine, !.contentLines = <<>>]

(***************************************************************************)
(* extractCalloutFenceEntries                                              *)
(***************************************************************************)
\* One turn of the loop of params.ts 181-219.
calloutStep(st, line) ==
  IF ~isCalloutLine(line) THEN (IF st.inBlock THEN resetBlock(st) ELSE st)
  ELSE LET strippedLine == stripCalloutPrefix(line)
       IN  IF ~st.inBlock
             THEN (IF fenceMatch(strippedLine) THEN openBlock(st, strippedLine) ELSE st)
           ELSE IF closingFence(st.fenceChar, strippedLine)
             THEN [resetBlock(st) EXCEPT !.entries =
                     Append(st.entries,
                            [fenceLine |-> st.fenceLine,
                             content |-> normalizeCodeContent(join(st.contentLines, <<"\n">>))])]
           ELSE [st EXCEPT !.contentLines = Append(st.contentLines, strippedLine)]

RECURSIVE calloutScan(_, _, _)
calloutScan(st, lines, i) ==
  IF i > Len(lines) THEN st
  ELSE CHOOSE r \in {calloutScan(x, lines, i + 1) : x \in {calloutStep(st, lines[i])}} : TRUE

extractCalloutFenceEntries(t) ==
  IF t = null \/ t = <<>> THEN <<>>
  ELSE calloutScan(ScanStart, split(t, "\n"), 1).entries

(***************************************************************************)
(* findFenceLineByLine.  A startLine of null is 0: both are falsy.         *)
(***************************************************************************)
Min(a, b) == IF a <= b THEN a ELSE b

\* Mutant of findFenceLineByLine: the scan starts at line startLine - 2.
findFenceLineByLineOneAbove(sectionText, startLine) ==
  IF sectionText = null \/ sectionText = <<>> \/ startLine = 0 THEN null
  ELSE LET lines == split(sectionText, "\n")
           index == Min(startLine - 2, Len(lines) - 1)
           hits == {i \in 0..index : fenceMatch(stripCalloutPrefix(lines[i + 1]))}
       IN  IF hits = {} THEN null
           ELSE stripCalloutPrefix(lines[(CHOOSE i \in hits : \A j \in hits : j <= i) + 1])

findFenceLineByLine(sectionText, startLine) ==
  IF sectionText = null \/ sectionText = <<>> \/ startLine = 0 THEN null
  ELSE LET lines == split(sectionText, "\n")
           index == Min(startLine - 1, Len(lines) - 1)
           hits == {i \in 0..index :
                      lines[i + 1] # <<>> /\ fenceMatch(stripCalloutPrefix(lines[i + 1]))}
       IN  IF hits = {} THEN null
           ELSE stripCalloutPrefix(lines[(CHOOSE i \in hits : \A j \in hits : j <= i) + 1])

(***************************************************************************)
(* findFenceLineForCodeBlock                                               *)
(***************************************************************************)
\* lines.map(trim).filter(Boolean).slice(0, 2).join("\n") of a normalised text
signatureOf(normalized) ==
  LET kept == SelectSeq(mapLines(split(normalized, "\n"), trim), LAMBDA l : l # <<>>)
  IN  join(SubSeq(kept, 1, Min(2, Len(kept))), <<"\n">>)

\* parseCodeblockParameters(fenceLineText).language: of the parameters only the
\* language is read, and only the language is computed.
fenceLanguage(fenceLineText) ==
  IF fenceLineText = null \/ fenceLineText = <<>> \/ trimmedOf(fenceLineText) = <<>>
    THEN DefaultParams.language
    ELSE languageOf(trimmedOf(fenceLineText))

\* Mutant of languageMatches: the alias table is not consulted.
languageMatchesExactOnly(fenceLineText, language, codeBlockLanguages) ==
  \/ language = null
  \/ language = <<>>
  \/ fenceLanguage(fenceLineText) = language

languageMatches(fenceLineText, language, codeBlockLanguages) ==
  LET fenceLang == fenceLanguage(fenceLineText)
      targetConfig == resolveLanguageConfig(language, codeBlockLanguages)
      fenceConfig == resolveLanguageConfig(fenceLang, codeBlockLanguages)
  IN  \/ language = null
      \/ language = <<>>
      \/ fenceLang = language
      \/ /\ codeBlockLanguages # null
         /\ targetConfig # null
         /\ fenceConfig # null
         /\ targetConfig = fenceConfig

\* Mutant of closeBlock: an exact match is recorded as a candidate, not returned.
closeBlockNoReturn(st, codeText, language, codeBlockLanguages) ==
  LET target == normalizeCodeContent(codeText)
      targetLoose == normalizeCodeContentLoose(codeText)
      targetSignature == signatureOf(target)
      blockContent == normalizeCodeContent(join(st.contentLines, <<"\n">>))
      blockLoose == normalizeCodeContentLoose(join(st.contentLines, <<"\n">>))
      blockSignature == signatureOf(blockContent)
      exact == blockContent = target \/ blockLoose = targetLoose
      signed == targetSignature # <<>> /\ blockSignature # <<>>
                  /\ blockSignature = targetSignature
  IN  IF (exact \/ signed) /\ languageMatches(st.fenceLine, language, codeBlockLanguages)
        THEN [resetBlock(st) EXCEPT !.candidates = Append(st.candidates, st.fenceLine)]
        ELSE resetBlock(st)

\* The closing fence of a block (params.ts 315-342).
closeBlock(st, codeText, language, codeBlockLanguages) ==
  LET target == normalizeCodeContent(codeText)
      targetLoose == normalizeCodeContentLoose(codeText)
      targetSignature == signatureOf(target)
      blockContent == normalizeCodeContent(join(st.contentLines, <<"\n">>))
      blockLoose == normalizeCodeContentLoose(join(st.contentLines, <<"\n">>))
      blockSignature == signatureOf(blockContent)
  IN  IF /\ (blockContent = target \/ blockLoose = targetLoose)
         /\ languageMatches(st.fenceLine, language, codeBlockLanguages)
        THEN [st EXCEPT !.returned = st.fenceLine]
      ELSE IF /\ targetSignature # <<>>
              /\ blockSignature # <<>>
              /\ blockSignature = targetSignature
              /\ languageMatches(st.fenceLine, language, codeBlockLanguages)
        THEN [resetBlock(st) EXCEPT !.candidates = Append(st.candidates, st.fenceLine)]
      ELSE resetBlock(st)

\* One turn of the loop of params.ts 299-345; nothing runs after a return.
locateStep(st, line, codeText, language, codeBlockLanguages) ==
  LET strippedLine == stripCalloutPrefix(line)
  IN  IF st.returned # null THEN st
      ELSE IF ~st.inBlock
        THEN (IF fenceMatch(strippedLine) THEN openBlock(st, strippedLine) ELSE st)
      ELSE IF closingFence(st.fenceChar, strippedLine)
        THEN closeBlock(st, codeText, language, codeBlockLanguages)
      ELSE [st EXCEPT !.contentLines = Append(st.contentLines, strippedLine)]

\* The loop; the state after each line is computed once and handed on.
RECURSIVE locateScan(_, _, _, _, _, _)
locateScan(st, lines, i, codeText, language, codeBlockLanguages) ==
  IF i > Len(lines) THEN st
  ELSE LET after == {locateStep(st, lines[i], codeText, language, codeBlockLanguages)}
       IN  CHOOSE r \in {locateScan(x, lines, i + 1, codeText, language,
                                     codeBlockLanguages) : x \in after} : TRUE

\* Mutant of pickCandidate: the first of several candidates is returned.
pickFirstCandidate(candidates) ==
  IF Len(candidates) >= 1 THEN candidates[1] ELSE null

\* params.ts 347-351
pickCandidate(candidates) ==
  IF Len(candidates) = 1 THEN candidates[1] ELSE null

\* Mutant of findFenceLineForCodeBlock: a block still open at the end of the
\* text is closed there.
findFenceLineClosingAtEnd(sectionText, codeText, language, codeBlockLanguages) ==
  IF sectionText = null \/ sectionText = <<>> THEN null
  ELSE IF normalizeCodeContent(codeText) = <<>> THEN null
  ELSE LET scanned == locateScan(ScanStart, split(sectionText, "\n"), 1,
                                 codeText, language, codeBlockLanguages)
           st == IF scanned.returned = null /\ scanned.inBlock
                   THEN closeBlock(scanned, codeText, language, codeBlockLanguages)
                   ELSE scanned
       IN  IF st.returned # null THEN st.returned ELSE pickCandidate(st.candidates)

findFenceLineForCodeBlock(sectionText, codeText, language, codeBlockLanguages) ==
  IF sectionText = null \/ sectionText = <<>> THEN null
  ELSE IF normalizeCodeContent(codeText) = <<>> THEN null
  ELSE LET st == locateScan(ScanStart, split(sectionText, "\n"), 1,
                            codeText, language, codeBlockLanguages)
       IN  IF st.returned # null THEN st.returned ELSE pickCandidate(st.candidates)

(***************************************************************************)
(* Fence lines under test.  A fence line is a marker followed by words     *)
(* separated by one space: language names, directives of the documented    *)
(* forms (README, "Fence Parameters") and ill-formed directives.           *)
(***************************************************************************)
TokJs == <<"j", "s">>
TokCpp == <<"C", "+", "+">>
TokBrace == <<"{", "x", "}">>
TokTitleBare == <<"t", "i", "t", "l", "e", ":", "x">>
TokTitleQuoted == <<"t", "i", "t", "l", "e", "=", "\"", "a", " ", "b", "\"">>
TokTitleEmpty == <<"t", "i", "t", "l", "e", ":">>
TokLnOffset == <<"l", "n", ":", "5">>
TokLnTrue == <<"l", "n", ":", "t", "r", "u", "e">>
TokLnFalse == <<"L", "N", "=", "F", "a", "l", "s", "e">>
TokLnBad == <<"l", "n", ":", "x">>
TokHl == <<"h", "l", ":", "1", ",", "3", "-", "5", ",", "7">>
TokHlBad == <<"h", "l", ":", "x">>
TokLangColor == <<"l", "a", "n", "g", "-", "c", "o", "l", "o", "r", ":", "#", "a", "1", "B", "2", "c", "3">>
TokLangColorBad == <<"l", "a", "n", "g", "-", "c", "o", "l", "o", "r", ":", "1", "2", "3", "4", "5">>
TokTitleColor == <<"t", "i", "t", "l", "e", "-", "c", "o", "l", "o", "r", "=", "0", "0", "f", "f", "0", "0">>
TokTitleColorBad == <<"t", "i", "t", "l", "e", "-", "c", "o", "l", "o", "r", ":", "#", "g", "g", "g">>

Tokens ==
  {TokJs, TokCpp, TokBrace, TokTitleBare,
   TokTitleQuoted, TokTitleEmpty, TokLnOffset, TokLnTrue,
   TokLnFalse, TokLnBad, TokHl, TokHlBad,
   TokLangColor, TokLangColorBad, TokTitleColor, TokTitleColorBad}

Markers == {<<Backquote, Backquote, Backquote>>, <<"~", "~", "~", "~", " ">>}

\* Inputs without any word: null, the empty string, bare markers, white space.
BareLines == {null, <<>>, <<Backquote, Backquote, Backquote>>, <<"~", "~", "~", "~", " ", " ">>, <<" ", " ">>}

\* Entries of an hl list: integers, ranges, ranges with a missing bound and
\* ranges with a bound that is not a number.
Ent1 == <<"1">>
Ent7 == <<"7">>
Ent3to5 == <<"3", "-", "5">>
Ent5to3 == <<"5", "-", "3">>
Ent2to2 == <<"2", "-", "2">>
EntNoEnd == <<"3", "-">>
EntNoStart == <<"-", "5">>
EntBadStart == <<"x", "-", "5">>
EntBadEnd == <<"3", "-", "x">>
EntBadTail == <<"2", "-", "3", "x">>

HlEntries ==
  {Ent1, Ent7, Ent3to5, Ent5to3, Ent2to2,
   EntNoEnd, EntNoStart, EntBadStart, EntBadEnd, EntBadTail}

HlPrefix == <<Backquote, Backquote, Backquote, "j", "s", " ", "h", "l", ":">>
HlSuffixes == {<<>>, <<" ", "t", "i", "t", "l", "e", ":", "x">>}

MaxTokens == 3
MaxEntries == 3

lineOfWords(marker, words) == marker \o join(words, <<" ">>)
lineOfEntries(entries, suffix) == HlPrefix \o join(entries, <<",">>) \o suffix

DomIdle ==
  /\ els = <<>>
  /\ settings = null
  /\ tasks = <<>>
  /\ memo = <<>>

NoState == [none |-> TRUE]
NoUpdate ==
  [view |-> 0, docChanged |-> FALSE, viewportChanged |-> FALSE, advanced |-> FALSE,
   rebuilt |-> FALSE]

HlIdle ==
  /\ highlighter = <<>>
  /\ highlighterState = NoState
  /\ highlighterStyleEl = FALSE
  /\ adoptedStyleSheets = 0
  /\ cleanupRegistered = FALSE
  /\ decorationVersion = 0
  /\ currentVersion = 0
  /\ views = <<>>
  /\ calls = <<>>
  /\ lastUpdate = NoUpdate

RegIdle == reg = <<>>

NoDecorations == [none |-> TRUE]
NoBlocks == [none |-> TRUE]
NoButton == [none |-> TRUE]

EdIdle == decorations = NoDecorations /\ blocks = NoBlocks
CopyIdle == copyBtn = NoButton
MoreIdle == EdIdle /\ CopyIdle

LaterIdle == DomIdle /\ HlIdle /\ RegIdle /\ MoreIdle

NormIdle ==
  /\ text = null
  /\ once = null
  /\ twice = null

LocIdle ==
  /\ doc = <<>>
  /\ section = null
  /\ targetText = null
  /\ targetLang = null
  /\ langTable = null
  /\ lineHint = 0
  /\ result = NoResult

ParseIdle ==
  /\ tokens = <<>>
  /\ hlEntries = <<>>
  /\ fenceLine = null
  /\ params = NoParams

\* Fence lines written from words, and the inputs without any word.
InitParse ==
  /\ pc = "start"
  /\ LaterIdle
  /\ NormIdle
  /\ LocIdle
  /\ hlEntries = <<>>
  /\ params = NoParams
  /\ \/ /\ tokens = <<>>
        /\ fenceLine \in BareLines
     \/ \E n \in 1..MaxTokens :
          /\ tokens \in [1..n -> Tokens]
          /\ \E marker \in Markers : fenceLine = lineOfWords(marker, tokens)

\* Fence lines with an hl directive written from a list of entries.
InitHl ==
  /\ pc = "start"
  /\ LaterIdle
  /\ NormIdle
  /\ LocIdle
  /\ tokens = <<>>
  /\ params = NoParams
  /\ \E n \in 0..MaxEntries :
       /\ hlEntries \in [1..n -> HlEntries]
       /\ \E suffix \in HlSuffixes : fenceLine = lineOfEntries(hlEntries, suffix)

ParseCodeblockParameters ==
  /\ pc = "start"
  /\ params' = parseCodeblockParameters(fenceLine)
  /\ pc' = "parsed"
  /\ UNCHANGED <<tokens, hlEntries, fenceLine, normVars, locVars, laterVars>>

NextParse == ParseCodeblockParameters

SpecParse == InitParse /\ [][NextParse]_vars
SpecHl == InitHl /\ [][NextParse]_vars

(***************************************************************************)
(* Normalising a text, and normalising the result again                    *)
(***************************************************************************)
MaxTextLen == 4
TextChars == {"a", " ", "\n", "\r"}

InitNorm ==
  /\ pc = "start"
  /\ LaterIdle
  /\ ParseIdle
  /\ LocIdle
  /\ \E n \in 0..MaxTextLen : text \in [1..n -> TextChars]
  /\ once = null
  /\ twice = null

Normalize ==
  /\ pc = "start"
  /\ once' = normalizeCodeContent(text)
  /\ pc' = "normalized"
  /\ UNCHANGED <<text, twice, parseVars, locVars, laterVars>>

NormalizeAgain ==
  /\ pc = "normalized"
  /\ twice' = normalizeCodeContent(once)
  /\ pc' = "renormalized"
  /\ UNCHANGED <<text, once, parseVars, locVars, laterVars>>

NextNorm == Normalize \/ NormalizeAgain

SpecNorm == InitNorm /\ [][NextNorm]_vars

\* C2: normalizeCodeContent is idempotent: normalising a normalised text gives
\* the same text, also for texts that end in two or more newlines or whose
\* last lines hold only white space.
NormalizeIdempotent ==
  pc = "renormalized" => twice = once

(***************************************************************************)
(* Claims about parseCodeblockParameters                                   *)
(***************************************************************************)
Chars ==
  LangChars \cup WS \cup FenceChars \cup Quotes \cup {":", "=", ",", "{", "}", ">"}

Text == Seq(Chars)

ParamsShape(p) ==
  /\ DOMAIN p = {"language", "title", "langColor", "titleColor", "lineNumbers", "highlights"}
  /\ p.language \in Text
  /\ p.title \in Text
  /\ p.langColor \in Text
  /\ p.titleColor \in Text
  /\ p.lineNumbers \in [enabled : {"true", "false", "null"}, offset : Nat]
  /\ p.highlights \in Seq(Nat)

WellFormedTitles == {TokTitleBare, TokTitleQuoted}
WellFormedLns == {TokLnOffset, TokLnTrue, TokLnFalse}

HasToken(S) == \E i \in 1..Len(tokens) : tokens[i] \in S

\* A title directive without a value takes the next word as its value, so it
\* is ill-formed only at the end of the line.
TitleAbsentOrMalformed ==
  /\ ~HasToken(WellFormedTitles)
  /\ \A i \in 1..Len(tokens) : tokens[i] = TokTitleEmpty => i = Len(tokens)

EntryLines(e) ==
  CASE e = Ent1 -> <<1>>
    [] e = Ent7 -> <<7>>
    [] e = Ent3to5 -> <<3, 4, 5>>
    [] e = Ent2to2 -> <<2>>
    [] e = EntBadTail -> <<2, 3>>
    [] OTHER -> <<>>

\* The entries with a character that is not a digit, a comma, a hyphen or white
\* space, and what the text before that character stands for.
BadEntries == {EntBadStart, EntBadEnd, EntBadTail}
BadEntryHead(e) == IF e = EntBadTail THEN <<2, 3>> ELSE <<>>

RECURSIVE AllEntryLines(_)
AllEntryLines(entries) ==
  IF entries = <<>> THEN <<>>
  ELSE EntryLines(entries[1]) \o AllEntryLines(Tail(entries))

RECURSIVE EntryLinesUntilBad(_)
EntryLinesUntilBad(entries) ==
  IF entries = <<>> THEN <<>>
  ELSE IF entries[1] \in BadEntries THEN BadEntryHead(entries[1])
  ELSE EntryLines(entries[1]) \o EntryLinesUntilBad(Tail(entries))

\* C3 as stated: every entry is expanded in encounter order, and an entry with
\* a missing or non-numeric bound is skipped without affecting the others.
HlSkipsEveryBadEntry ==
  pc = "parsed" => params.highlights = AllEntryLines(hlEntries)

\* C3, amended: the list read is the run of digits, commas, hyphens and white
\* space after hl: ; its entries are expanded in encounter order (n gives n,
\* a-b gives a..b ascending and nothing when a > b, duplicates kept), an entry
\* with a missing bound is skipped without affecting the others, and the first
\* other character ends the list: what precedes it in its entry is still read,
\* the entries after it are not.
HlExpandsUntilOtherCharacter ==
  pc = "parsed" => params.highlights = EntryLinesUntilBad(hlEntries)

HlWitness ==
  /\ pc = "parsed"
  /\ hlEntries = <<Ent1, EntNoEnd, Ent3to5>>
  /\ params.highlights = <<1, 3, 4, 5>>

LnMeaning(tok) ==
  CASE tok = TokLnOffset -> [enabled |-> "true", offset |-> 5]
    [] tok = TokLnTrue -> [enabled |-> "true", offset |-> 1]
    [] tok = TokLnFalse -> [enabled |-> "false", offset |-> 1]

\* C4: lineNumbers is {true, N} for ln:N, {true, 1} for ln:true, {false, 1} for
\* ln:false and {null, 1} without an ln directive, wherever the ln directive
\* stands among the other words of the line.
LnDirectiveDecides ==
  (pc = "parsed" /\ tokens # <<>>) =>
    LET at == {i \in 1..Len(tokens) : tokens[i] \in WellFormedLns}
    IN  /\ at = {} => params.lineNumbers = DefaultLineNumbers
        /\ \A i \in 1..Len(tokens) : at = {i} => params.lineNumbers = LnMeaning(tokens[i])

LnWitness ==
  /\ pc = "parsed"
  /\ tokens = <<TokJs, TokTitleQuoted, TokLnOffset>>
  /\ params.lineNumbers = [enabled |-> "true", offset |-> 5]

\* The language a word names: only language names name one.
LanguageName(tok) ==
  CASE tok = TokJs -> <<"j", "s">>
    [] tok = TokCpp -> <<"c", "+", "+">>
    [] OTHER -> <<>>

\* The lower-cased leading letters, digits, +, # and - of each word.
LeadingName(tok) ==
  CASE tok = TokJs -> <<"j", "s">>
    [] tok = TokCpp -> <<"c", "+", "+">>
    [] tok = TokBrace -> <<>>
    [] tok \in {TokTitleBare, TokTitleQuoted, TokTitleEmpty} -> <<"t", "i", "t", "l", "e">>
    [] tok \in {TokLnOffset, TokLnTrue, TokLnFalse, TokLnBad} -> <<"l", "n">>
    [] tok \in {TokHl, TokHlBad} -> <<"h", "l">>
    [] tok \in {TokLangColor, TokLangColorBad} -> <<"l", "a", "n", "g", "-", "c", "o", "l", "o", "r">>
    [] tok \in {TokTitleColor, TokTitleColorBad} -> <<"t", "i", "t", "l", "e", "-", "c", "o", "l", "o", "r">>

\* C5 as stated: the language is the lower-cased language name after the
\* marker, and empty when the first word is a directive.
LanguageEmptyBeforeDirective ==
  (pc = "parsed" /\ tokens # <<>>) => params.language = LanguageName(tokens[1])

\* C5, amended: the language is the lower-cased longest run of letters, digits,
\* +, # and - that starts the text after the marker; it is empty only when that
\* text is empty or starts with another character, and a directive in first
\* place gives its key (title, ln, hl, lang-color, title-color) as the language.
LanguageIsLeadingRun ==
  pc = "parsed" =>
    params.language = IF tokens = <<>> THEN <<>> ELSE LeadingName(tokens[1])

LanguageWitness ==
  /\ pc = "parsed"
  /\ tokens = <<TokLnOffset, TokJs>>
  /\ params.language = <<"l", "n">>

(***************************************************************************)
(* Sections under test.  A section is a sequence of items: a line of text, *)
(* or a fenced block with its lines as the source holds them, those lines  *)
(* without the quote markers of a callout, the role of each line, the      *)
(* block it writes (fence line and content lines) and, for a block inside  *)
(* a callout, the entry it stands for.                                     *)
(***************************************************************************)
ItemText ==
  [lines |-> <<<<"t", "e", "x", "t">>>>,
   stripped |-> <<<<"t", "e", "x", "t">>>>,
   roles |-> <<"text">>,
   blocks |-> <<>>,
   entries |-> <<>>]

ItemNote ==
  [lines |-> <<<<">", " ", "n", "o", "t", "e">>>>,
   stripped |-> <<<<"n", "o", "t", "e">>>>,
   roles |-> <<"text">>,
   blocks |-> <<>>,
   entries |-> <<>>]

ItemJsAbc ==
  [lines |-> <<<<Backquote, Backquote, Backquote, "j", "s">>, <<"a">>, <<"b">>, <<"c">>,
      <<Backquote, Backquote, Backquote>>>>,
   stripped |-> <<<<Backquote, Backquote, Backquote, "j", "s">>, <<"a">>, <<"b">>, <<"c">>,
      <<Backquote, Backquote, Backquote>>>>,
   roles |-> <<"open", "content", "content", "content", "close">>,
   blocks |-> <<[fenceLine |-> <<Backquote, Backquote, Backquote, "j", "s">>,
      content |-> <<<<"a">>, <<"b">>, <<"c">>>>]>>,
   entries |-> <<>>]

ItemJsTitleAbd ==
  [lines |-> <<<<Backquote, Backquote, Backquote, "j", "s", " ", "t", "i", "t", "l", "e", ":",
      "x">>, <<"a">>, <<"b">>, <<"d">>, <<Backquote, Backquote, Backquote>>>>,
   stripped |-> <<<<Backquote, Backquote, Backquote, "j", "s", " ", "t", "i", "t", "l", "e",
      ":", "x">>, <<"a">>, <<"b">>, <<"d">>, <<Backquote, Backquote, Backquote>>>>,
   roles |-> <<"open", "content", "content", "content", "close">>,
   blocks |-> <<[fenceLine |-> <<Backquote, Backquote, Backquote, "j", "s", " ", "t", "i",
      "t", "l", "e", ":", "x">>, content |-> <<<<"a">>, <<"b">>, <<"d">>>>]>>,
   entries |-> <<>>]

ItemPythonAbc ==
  [lines |-> <<<<"~", "~", "~", "p", "y", "t", "h", "o", "n">>, <<"a">>, <<"b">>, <<"c">>,
      <<"~", "~", "~">>>>,
   stripped |-> <<<<"~", "~", "~", "p", "y", "t", "h", "o", "n">>, <<"a">>, <<"b">>, <<"c">>,
      <<"~", "~", "~">>>>,
   roles |-> <<"open", "content", "content", "content", "close">>,
   blocks |-> <<[fenceLine |-> <<"~", "~", "~", "p", "y", "t", "h", "o", "n">>,
      content |-> <<<<"a">>, <<"b">>, <<"c">>>>]>>,
   entries |-> <<>>]

ItemCalloutAbe ==
  [lines |-> <<<<">", " ", Backquote, Backquote, Backquote, "j", "a", "v", "a", "s", "c", "r",
      "i", "p", "t", " ", "l", "n", ":", "5">>, <<">", " ", "a">>, <<">", " ", "b">>, <<">",
      " ", "e">>, <<">", " ", Backquote, Backquote, Backquote>>>>,
   stripped |-> <<<<Backquote, Backquote, Backquote, "j", "a", "v", "a", "s", "c", "r", "i",
      "p", "t", " ", "l", "n", ":", "5">>, <<"a">>, <<"b">>, <<"e">>, <<Backquote,
      Backquote, Backquote>>>>,
   roles |-> <<"open", "content", "content", "content", "close">>,
   blocks |-> <<[fenceLine |-> <<Backquote, Backquote, Backquote, "j", "a", "v", "a", "s",
      "c", "r", "i", "p", "t", " ", "l", "n", ":", "5">>, content |-> <<<<"a">>, <<"b">>,
      <<"e">>>>]>>,
   entries |-> <<[fenceLine |-> <<Backquote, Backquote, Backquote, "j", "a", "v", "a", "s",
      "c", "r", "i", "p", "t", " ", "l", "n", ":", "5">>, content |-> <<"a", "\n", "b",
      "\n", "e">>]>>]

ItemEmpty ==
  [lines |-> <<<<Backquote, Backquote, Backquote>>, <<Backquote, Backquote, Backquote>>>>,
   stripped |-> <<<<Backquote, Backquote, Backquote>>, <<Backquote, Backquote, Backquote>>>>,
   roles |-> <<"open", "close">>,
   blocks |-> <<[fenceLine |-> <<Backquote, Backquote, Backquote>>, content |-> <<>>]>>,
   entries |-> <<>>]

ItemBlank ==
  [lines |-> <<<<Backquote, Backquote, Backquote, "j", "s">>, <<>>, <<>>, <<Backquote,
      Backquote, Backquote>>>>,
   stripped |-> <<<<Backquote, Backquote, Backquote, "j", "s">>, <<>>, <<>>, <<Backquote,
      Backquote, Backquote>>>>,
   roles |-> <<"open", "content", "content", "close">>,
   blocks |-> <<[fenceLine |-> <<Backquote, Backquote, Backquote, "j", "s">>,
      content |-> <<<<>>, <<>>>>]>>,
   entries |-> <<>>]

ItemLoose ==
  [lines |-> <<<<Backquote, Backquote, Backquote, Backquote, "j", "s">>, <<" ", " ", "a",
      " ">>, <<"b">>, <<"c">>, <<Backquote, Backquote, Backquote, " ", " ">>>>,
   stripped |-> <<<<Backquote, Backquote, Backquote, Backquote, "j", "s">>, <<" ", " ", "a",
      " ">>, <<"b">>, <<"c">>, <<Backquote, Backquote, Backquote, " ", " ">>>>,
   roles |-> <<"open", "content", "content", "content", "close">>,
   blocks |-> <<[fenceLine |-> <<Backquote, Backquote, Backquote, Backquote, "j", "s">>,
      content |-> <<<<" ", " ", "a", " ">>, <<"b">>, <<"c">>>>]>>,
   entries |-> <<>>]

ItemQuoted ==
  [lines |-> <<<<">", " ", Backquote, Backquote, Backquote, "j", "s", " ", "t", "i", "t", "l",
      "e", ":", "x">>, <<">", " ", "a">>, <<">", " ", "b">>, <<">", " ", Backquote,
      Backquote, Backquote>>>>,
   stripped |-> <<<<Backquote, Backquote, Backquote, "j", "s", " ", "t", "i", "t", "l", "e",
      ":", "x">>, <<"a">>, <<"b">>, <<Backquote, Backquote, Backquote>>>>,
   roles |-> <<"open", "content", "content", "close">>,
   blocks |-> <<[fenceLine |-> <<Backquote, Backquote, Backquote, "j", "s", " ", "t", "i",
      "t", "l", "e", ":", "x">>, content |-> <<<<"a">>, <<"b">>>>]>>,
   entries |-> <<[fenceLine |-> <<Backquote, Backquote, Backquote, "j", "s", " ", "t", "i",
      "t", "l", "e", ":", "x">>, content |-> <<"a", "\n", "b">>]>>]

ItemNested ==
  [lines |-> <<<<">", ">", " ", "~", "~", "~", "p", "y">>, <<">", ">", " ", "a">>, <<">", ">",
      " ", Backquote, Backquote, Backquote>>, <<">", ">", " ", "~", "~", "~">>>>,
   stripped |-> <<<<"~", "~", "~", "p", "y">>, <<"a">>, <<Backquote, Backquote, Backquote>>,
      <<"~", "~", "~">>>>,
   roles |-> <<"open", "content", "fence-like content", "close">>,
   blocks |-> <<[fenceLine |-> <<"~", "~", "~", "p", "y">>, content |-> <<<<"a">>,
      <<Backquote, Backquote, Backquote>>>>]>>,
   entries |-> <<[fenceLine |-> <<"~", "~", "~", "p", "y">>, content |-> <<"a", "\n",
      Backquote, Backquote, Backquote>>]>>]

ItemBroken ==
  [lines |-> <<<<">", " ", Backquote, Backquote, Backquote, "j", "s">>, <<">", " ", "a">>,
      <<"t", "e", "x", "t">>>>,
   stripped |-> <<<<Backquote, Backquote, Backquote, "j", "s">>, <<"a">>, <<"t", "e", "x",
      "t">>>>,
   roles |-> <<"open", "content", "text">>,
   blocks |-> <<>>,
   entries |-> <<>>]

ItemQuoteLine ==
  [lines |-> <<<<Backquote, Backquote, Backquote, "m", "d">>, <<">", " ", "a">>, <<"b">>,
      <<Backquote, Backquote, Backquote>>>>,
   stripped |-> <<<<Backquote, Backquote, Backquote, "m", "d">>, <<"a">>, <<"b">>,
      <<Backquote, Backquote, Backquote>>>>,
   roles |-> <<"open", "content", "content", "close">>,
   blocks |-> <<[fenceLine |-> <<Backquote, Backquote, Backquote, "m", "d">>,
      content |-> <<<<">", " ", "a">>, <<"b">>>>]>>,
   entries |-> <<>>]

ItemLongFence ==
  [lines |-> <<<<Backquote, Backquote, Backquote, Backquote, "m", "d">>, <<"a">>, <<Backquote,
      Backquote, Backquote>>, <<"b">>, <<Backquote, Backquote, Backquote, Backquote>>>>,
   stripped |-> <<<<Backquote, Backquote, Backquote, Backquote, "m", "d">>, <<"a">>,
      <<Backquote, Backquote, Backquote>>, <<"b">>, <<Backquote, Backquote, Backquote,
      Backquote>>>>,
   roles |-> <<"open", "content", "fence-like content", "content", "close">>,
   blocks |-> <<[fenceLine |-> <<Backquote, Backquote, Backquote, Backquote, "m", "d">>,
      content |-> <<<<"a">>, <<Backquote, Backquote, Backquote>>, <<"b">>>>]>>,
   entries |-> <<>>]

TargetAbc == <<"a", "\n", "b", "\n", "c", "\n">>
TargetAbx == <<"a", "\n", "b", "\n", "x", "\n">>
TargetEmpty == <<>>
TargetBlank == <<"\n", "\n">>
TargetAbcSpaced == <<" ", "a", " ", "\n", "\n", "b", "\n", "c", "\n", "\n">>
TargetAbe == <<"a", "\n", "b", "\n", "e", "\n">>
TargetQuoteLine == <<">", " ", "a", "\n", "b", "\n">>
TargetLongFence == <<"a", "\n", Backquote, Backquote, Backquote, "\n", "b", "\n">>

LangJs == <<"j", "s">>
LangJavascript == <<"j", "a", "v", "a", "s", "c", "r", "i", "p", "t">>
LangPython == <<"p", "y", "t", "h", "o", "n">>

LanguageTable ==
  <<[name |-> LangPython, aliases |-> <<>>],
    [name |-> LangJavascript, aliases |-> <<LangJs>>]>>

\* The language of the rendered block with the table the caller passes along.
Filters ==
  {<<null, null>>, <<LangJs, null>>, <<LangJavascript, LanguageTable>>,
   <<LangPython, LanguageTable>>}

LocateItems ==
  {ItemJsAbc, ItemJsTitleAbd, ItemPythonAbc, ItemCalloutAbe, ItemEmpty, ItemLoose}
LocateTargets == {TargetAbc, TargetAbx, TargetEmpty, TargetBlank}

MaxItems == 3

RECURSIVE docLines(_)
docLines(items) ==
  IF items = <<>> THEN <<>> ELSE Head(items).lines \o docLines(Tail(items))

sourceOf(items) == join(docLines(items), <<"\n">>)

\* Sections of up to MaxItems items, with a target and a language filter.
InitLocate ==
  /\ pc = "start"
  /\ LaterIdle
  /\ ParseIdle
  /\ NormIdle
  /\ \E n \in 0..MaxItems : doc \in [1..n -> LocateItems]
  /\ section = sourceOf(doc)
  /\ targetText \in LocateTargets
  /\ \E f \in Filters : targetLang = f[1] /\ langTable = f[2]
  /\ lineHint = 0
  /\ result = NoResult

FindFenceLineForCodeBlock ==
  /\ pc = "start"
  /\ result' = findFenceLineForCodeBlock(section, targetText, targetLang, langTable)
  /\ pc' = "located"
  /\ UNCHANGED <<doc, section, targetText, targetLang, langTable, lineHint, parseVars,
               normVars, laterVars>>

NextLocate == FindFenceLineForCodeBlock

SpecLocate == InitLocate /\ [][NextLocate]_vars

(***************************************************************************)
(* Sections with exactly one fenced block, looked for without a language   *)
(***************************************************************************)
OneBlockItems ==
  {ItemJsAbc, ItemPythonAbc, ItemLoose, ItemCalloutAbe, ItemQuoteLine, ItemLongFence}
OneBlockTargets ==
  {TargetAbc, TargetAbcSpaced, TargetAbe, TargetAbx, TargetQuoteLine, TargetLongFence}

InitLocateOne ==
  /\ pc = "start"
  /\ LaterIdle
  /\ ParseIdle
  /\ NormIdle
  /\ \E n \in 1..MaxItems :
       /\ doc \in [1..n -> OneBlockItems \cup {ItemText}]
       /\ Cardinality({i \in 1..n : doc[i] # ItemText}) = 1
  /\ section = sourceOf(doc)
  /\ targetText \in OneBlockTargets
  /\ targetLang = null
  /\ langTable = null
  /\ lineHint = 0
  /\ result = NoResult

SpecLocateOne == InitLocateOne /\ [][NextLocate]_vars

(***************************************************************************)
(* Sections with callouts, read by extractCalloutFenceEntries              *)
(***************************************************************************)
CalloutItems ==
  {ItemText, ItemNote, ItemJsAbc, ItemCalloutAbe, ItemQuoted, ItemNested, ItemBroken}

InitCallout ==
  /\ pc = "start"
  /\ LaterIdle
  /\ ParseIdle
  /\ NormIdle
  /\ \E n \in 0..MaxItems : doc \in [1..n -> CalloutItems]
  /\ section = sourceOf(doc)
  /\ targetText = null
  /\ targetLang = null
  /\ langTable = null
  /\ lineHint = 0
  /\ result = NoResult

ExtractCalloutFenceEntries ==
  /\ pc = "start"
  /\ result' = extractCalloutFenceEntries(section)
  /\ pc' = "extracted"
  /\ UNCHANGED <<doc, section, targetText, targetLang, langTable, lineHint, parseVars,
               normVars, laterVars>>

NextCallout == ExtractCalloutFenceEntries

SpecCallout == InitCallout /\ [][NextCallout]_vars

(***************************************************************************)
(* Sections with a line hint, read by findFenceLineByLine                  *)
(***************************************************************************)
ByLineItems ==
  {ItemText, ItemNote, ItemJsAbc, ItemCalloutAbe, ItemNested, ItemEmpty, ItemBlank}

\* The hint ranges over no hint, every line of the section and one line past it.
InitByLine ==
  /\ pc = "start"
  /\ LaterIdle
  /\ ParseIdle
  /\ NormIdle
  /\ \E n \in 0..MaxItems : doc \in [1..n -> ByLineItems]
  /\ section = sourceOf(doc)
  /\ targetText = null
  /\ targetLang = null
  /\ langTable = null
  /\ lineHint \in 0..(Len(docLines(doc)) + 1)
  /\ result = NoResult

FindFenceLineByLine ==
  /\ pc = "start"
  /\ result' = findFenceLineByLine(section, lineHint)
  /\ pc' = "found"
  /\ UNCHANGED <<doc, section, targetText, targetLang, langTable, lineHint, parseVars,
               normVars, laterVars>>

NextByLine == FindFenceLineByLine

SpecByLine == InitByLine /\ [][NextByLine]_vars

(***************************************************************************)
(* Claims about findFenceLineForCodeBlock                                  *)
(***************************************************************************)
RECURSIVE docBlocks(_)
docBlocks(items) ==
  IF items = <<>> THEN <<>> ELSE Head(items).blocks \o docBlocks(Tail(items))

Blocks == docBlocks(doc)
BlockText(b) == join(b.content, <<"\n">>)

\* Pairs of a fence language and a wanted language that name the same language.
SameLanguage ==
  {<<l, l>> : l \in {LangJs, LangJavascript, LangPython}}
    \cup (IF langTable = null THEN {}
          ELSE {<<LangJs, LangJavascript>>, <<LangJavascript, LangJs>>})

Compatible(b) ==
  \/ targetLang = null
  \/ <<parseCodeblockParameters(b.fenceLine).language, targetLang>> \in SameLanguage

ExactAt(i) ==
  /\ Compatible(Blocks[i])
  /\ \/ normalizeCodeContent(BlockText(Blocks[i])) = normalizeCodeContent(targetText)
     \/ normalizeCodeContentLoose(BlockText(Blocks[i])) = normalizeCodeContentLoose(targetText)

\* The first two non-blank lines of a text, each trimmed.
FirstTwoLines(t) ==
  LET ls == split(replaceCrLf(t), "\n")
      kept == {i \in 1..Len(ls) : trim(ls[i]) # <<>>}
      first == CHOOSE i \in kept : \A j \in kept : i <= j
      second == CHOOSE i \in kept \ {first} : \A j \in kept \ {first} : i <= j
  IN  IF kept = {} THEN <<>>
      ELSE IF Cardinality(kept) = 1 THEN <<trim(ls[first])>>
      ELSE <<trim(ls[first]), trim(ls[second])>>

SignatureAt(i) ==
  /\ Compatible(Blocks[i])
  /\ FirstTwoLines(targetText) # <<>>
  /\ FirstTwoLines(BlockText(Blocks[i])) = FirstTwoLines(targetText)

Exacts == {i \in 1..Len(Blocks) : ExactAt(i)}
Signatures == {i \in 1..Len(Blocks) : SignatureAt(i)}
FirstExact == CHOOSE i \in Exacts : \A j \in Exacts : i <= j

\* C6 as stated: when some closed block of a compatible language equals the
\* target exactly, under the standard or the loose normal form, the fence line
\* of the first such block is returned.
FirstExactMatchWins ==
  (pc = "located" /\ Exacts # {}) => result = Blocks[FirstExact].fenceLine

\* C6, amended: when the target's normalised content is not empty and some closed
\* block of a compatible language equals the target exactly, under the standard
\* or the loose normal form, the fence line of the first such block is returned,
\* whatever signature candidates were recorded before it; for a target whose
\* normalised content is empty the result is null.
FirstExactMatchWinsForNonEmptyTarget ==
  /\ (pc = "located" /\ Exacts # {} /\ normalizeCodeContent(targetText) # <<>>)
       => result = Blocks[FirstExact].fenceLine
  /\ (pc = "located" /\ normalizeCodeContent(targetText) = <<>>) => result = null

\* Two signature candidates precede the exact match, which is returned.
FirstExactMatchWitness ==
  /\ pc = "located"
  /\ doc = <<ItemJsTitleAbd, ItemCalloutAbe, ItemJsAbc>>
  /\ targetText = TargetAbc
  /\ targetLang = null
  /\ Signatures = {1, 2, 3}
  /\ Exacts = {3}
  /\ result = ItemJsAbc.blocks[1].fenceLine

\* C7: when no closed block equals the target exactly, the result is the fence
\* line of the one compatible block with the target's signature (its first two
\* non-blank lines, trimmed) when there is exactly one such block, and null when
\* there is none or more than one.
UniqueSignatureOrNull ==
  (pc = "located" /\ Exacts = {})
    => result = IF Cardinality(Signatures) = 1
                  THEN Blocks[CHOOSE i \in Signatures : TRUE].fenceLine
                  ELSE null

\* Two blocks share the target's signature and none is picked.
UniqueSignatureWitness ==
  /\ pc = "located"
  /\ doc = <<ItemJsTitleAbd, ItemCalloutAbe>>
  /\ targetText = TargetAbx
  /\ Exacts = {}
  /\ Signatures = {1, 2}
  /\ result = null

\* The lines of a text that are not blank, each without the white space around it.
Canon(t) ==
  SelectSeq(mapLines(split(replaceCrLf(t), "\n"), trim), LAMBDA l : l # <<>>)

\* C8 as stated: for a section with exactly one fenced block and a non-empty
\* target that equals the block's content up to trailing white space on lines,
\* leading indentation and extra blank lines, the search without a language
\* filter returns the fence line of that block.
OneBlockIsFound ==
  ( /\ pc = "located"
    /\ targetLang = null
    /\ Len(Blocks) = 1
    /\ targetText # <<>>
    /\ Canon(targetText) = Canon(BlockText(Blocks[1])) )
    => result = Blocks[1].fenceLine

(***************************************************************************)
(* Claims about extractCalloutFenceEntries                                 *)
(***************************************************************************)
RECURSIVE docEntries(_)
docEntries(items) ==
  IF items = <<>> THEN <<>> ELSE Head(items).entries \o docEntries(Tail(items))

\* C9: the entries returned are, in document order, one for each fenced block
\* opened and closed with the same fence character inside one run of quoted
\* lines, with fence line and content free of quote markers; a block still open
\* at a line that is not quoted yields no entry and the scan goes on after it.
CalloutEntriesInOrder ==
  pc = "extracted" => result = docEntries(doc)

\* A block left open by an unquoted line is followed by a closed one, and a block
\* with the other fence character inside a fenced block is part of its content.
CalloutEntriesWitness ==
  /\ pc = "extracted"
  /\ doc = <<ItemBroken, ItemNested, ItemQuoted>>
  /\ Len(result) = 2
  /\ result[1].fenceLine = <<"~", "~", "~", "p", "y">>
  /\ \A i \in 1..2 : ~includes(result[i].fenceLine, ">") /\ ~includes(result[i].content, ">")

(***************************************************************************)
(* Claims about findFenceLineByLine                                        *)
(***************************************************************************)
RECURSIVE docRoles(_)
docRoles(items) ==
  IF items = <<>> THEN <<>> ELSE Head(items).roles \o docRoles(Tail(items))

RECURSIVE docStripped(_)
docStripped(items) ==
  IF items = <<>> THEN <<>> ELSE Head(items).stripped \o docStripped(Tail(items))

Roles == docRoles(doc)
Stripped == docStripped(doc)

\* The line the scan starts from: the hinted line, or the last line before it.
HintedLine == IF lineHint <= Len(Roles) THEN lineHint ELSE Len(Roles)

OpensAbove == {i \in 1..HintedLine : Roles[i] = "open"}
FencesAbove == {i \in 1..HintedLine : Roles[i] \in {"open", "close", "fence-like content"}}
Last(S) == CHOOSE i \in S : \A j \in S : j <= i

\* C10 as stated: for a line number inside a fenced block or after its closing
\* fence the result is the opening fence line of that block, without quote
\* markers, and the result is null when no fence line is at or above the line.
OpeningFenceAtOrAbove ==
  (pc = "found" /\ lineHint >= 1)
    => result = IF OpensAbove = {} THEN null ELSE Stripped[Last(OpensAbove)]

\* C10, amended: the result is the nearest line at or above the hinted line that
\* starts, once its quote markers are removed, with three or more backquotes or
\* tildes: the opening fence for a hint on the fence line or on a content line
\* with no such line in between, the closing fence for a hint on or after the
\* closing fence; it is null without a hint or without such a line.
NearestFenceAtOrAbove ==
  pc = "found"
    => result = IF lineHint = 0 \/ FencesAbove = {} THEN null
                ELSE Stripped[Last(FencesAbove)]

\* The hint is on the closing fence of a quoted block, and that line is returned.
NearestFenceWitness ==
  /\ pc = "found"
  /\ lineHint >= 1
  /\ lineHint <= Len(Roles)
  /\ Roles[lineHint] = "close"
  /\ docLines(doc)[lineHint][1] = ">"
  /\ result = Stripped[lineHint]
  /\ result # Stripped[Last(OpensAbove)]

(***************************************************************************)
(* Decoration of rendered code blocks (src/src/decorate.ts and the         *)
(* post-processor of src/src/register.ts).  A <pre> element is a record of *)
(* what the host rendered (the first seven fields) and of what decoration  *)
(* adds to it: classes of the <pre> and of its <code>, the number of       *)
(* wrapper ancestors, headers and gutters, the text of the gutter and the   *)
(* attributes written (highlightLines is data-highlight-lines).            *)
(***************************************************************************)
Decorated == "sf-codeblock-decorated"
Pending == "sf-codeblock-pending"

LangMermaid == <<"m", "e", "r", "m", "a", "i", "d">>
LangMermaidUpper == <<"M", "e", "r", "m", "a", "i", "d">>
LangYaml == <<"y", "a", "m", "l">>
SourceJs ==
  <<Backquote, Backquote, Backquote, "j", "s", " ", "l", "n", ":", "5", " ", "h", "l", ":",
    "6", "\n", "a", "\n", "b", "\n", "c", "\n", Backquote, Backquote, Backquote>>
SourceMermaid ==
  <<Backquote, Backquote, Backquote, "M", "e", "r", "m", "a", "i", "d", "\n", "a", "\n",
    "b", "\n", "c", "\n", Backquote, Backquote, Backquote>>
SourceCallout ==
  <<">", " ", Backquote, Backquote, Backquote, "j", "s", " ", "t", "i", "t", "l", "e", ":",
    "x", "\n", ">", " ", "a", "\n", ">", " ", "b", "\n", ">", " ", "c", "\n", ">", " ",
    Backquote, Backquote, Backquote>>
SourceCalloutPlain ==
  <<">", " ", Backquote, Backquote, Backquote, "j", "s", "\n", ">", " ", "a", "\n", ">", " ",
    "b", "\n", ">", " ", "c", "\n", ">", " ", Backquote, Backquote, Backquote>>
FenceCallout ==
  <<Backquote, Backquote, Backquote, "j", "s", " ", "t", "i", "t", "l", "e", ":", "x">>

\* What the host renders: top-level and callout blocks, with and without a
\* language class, source text and code, and a front-matter block.
ElementKinds ==
  {[callout |-> FALSE, frontmatter |-> FALSE, hasCode |-> TRUE, codeText |-> TargetAbc,
    langClass |-> LangJs, source |-> SourceJs, dataLine |-> 0],
   [callout |-> FALSE, frontmatter |-> FALSE, hasCode |-> TRUE, codeText |-> TargetAbc,
    langClass |-> LangMermaid, source |-> null, dataLine |-> 0],
   [callout |-> FALSE, frontmatter |-> FALSE, hasCode |-> TRUE, codeText |-> TargetAbc,
    langClass |-> LangMermaidUpper, source |-> SourceMermaid, dataLine |-> 0],
   [callout |-> TRUE, frontmatter |-> FALSE, hasCode |-> TRUE, codeText |-> TargetAbc,
    langClass |-> LangJs, source |-> SourceCallout, dataLine |-> 0],
   [callout |-> TRUE, frontmatter |-> FALSE, hasCode |-> TRUE, codeText |-> TargetAbx,
    langClass |-> LangJs, source |-> SourceCallout, dataLine |-> 2],
   [callout |-> TRUE, frontmatter |-> FALSE, hasCode |-> TRUE, codeText |-> <<>>,
    langClass |-> LangJs, source |-> SourceCallout, dataLine |-> 0],
   [callout |-> TRUE, frontmatter |-> FALSE, hasCode |-> FALSE, codeText |-> <<>>,
    langClass |-> <<>>, source |-> SourceCallout, dataLine |-> 0],
   [callout |-> FALSE, frontmatter |-> TRUE, hasCode |-> TRUE, codeText |-> TargetAbc,
    langClass |-> LangYaml, source |-> null, dataLine |-> 0]}

\* A <pre> as the host renders it, before any decoration.
FreshElement(kind) ==
  [callout |-> kind.callout, frontmatter |-> kind.frontmatter, hasCode |-> kind.hasCode,
   codeText |-> kind.codeText, langClass |-> kind.langClass, source |-> kind.source,
   dataLine |-> kind.dataLine,
   preClasses |-> {}, codeClasses |-> {}, wrappers |-> 0, headers |-> 0, gutters |-> 0,
   wrapperLang |-> null, headerTitle |-> null, gutterText |-> null,
   highlightLines |-> null]

\* params.ts 138-162
isFrontmatterCodeBlock(el) ==
  \/ el.frontmatter
  \/ el.langClass = LangYaml /\ trim(el.codeText) = <<>>

\* textContent.split("\n") without a trailing empty line (decorate.ts 144-148)
codeLines(codeText) == dropLastIfEmpty(split(codeText, "\n"))

\* Number.prototype.toString on a natural number
DigitChar(d) == CHOOSE c \in Digits : DigitVal(c) = d

RECURSIVE numberToString(_)
numberToString(n) ==
  IF n < 10 THEN <<DigitChar(n)>>
  ELSE numberToString(n \div 10) \o <<DigitChar(n % 10)>>

\* numbers.join(sep)
joinNumbers(numbers, sep) ==
  join([k \in 1..Len(numbers) |-> numberToString(numbers[k])], sep)

\* the indices of the highlighted lines in the order of the directive
RECURSIVE inDirectiveOrder(_, _, _)
inDirectiveOrder(highlights, offset, lineCount) ==
  IF highlights = <<>> THEN <<>>
  ELSE (IF Head(highlights) - offset \in 0..(lineCount - 1)
          THEN <<Head(highlights) - offset>> ELSE <<>>)
       \o inDirectiveOrder(Tail(highlights), offset, lineCount)

\* highlight indices written in the order of the directive
applyInDirectiveOrder(el, highlights, offset) ==
  LET highlightLines == inDirectiveOrder(highlights, offset, Len(codeLines(el.codeText)))
  IN  IF highlightLines = <<>> THEN el
      ELSE [el EXCEPT !.highlightLines = joinNumbers(highlightLines, <<",">>),
                      !.codeClasses = @ \cup {"sf-codeblock-has-highlights"}]

\* the loop of decorate.ts 195-200 from index i on
RECURSIVE highlightLinesFrom(_, _, _, _)
highlightLinesFrom(i, lineCount, highlights, offset) ==
  IF i >= lineCount THEN <<>>
  ELSE (IF \E k \in 1..Len(highlights) : highlights[k] = i + offset THEN <<i>> ELSE <<>>)
       \o highlightLinesFrom(i + 1, lineCount, highlights, offset)

\* decorate.ts 183-207
applyLineHighlights(el, highlights, offset) ==
  LET highlightLines ==
        highlightLinesFrom(0, Len(codeLines(el.codeText)), highlights, offset)
  IN  IF highlightLines = <<>> THEN el
      ELSE [el EXCEPT !.highlightLines = joinNumbers(highlightLines, <<",">>),
                      !.codeClasses = @ \cup {"sf-codeblock-has-highlights"}]

\* decorate.ts 139-181
processCodeBlockLines(el, parameters, showLineNumbers) ==
  LET lineCount == Len(codeLines(el.codeText))
      offset == IF parameters.lineNumbers.offset = 0 THEN 1 ELSE parameters.lineNumbers.offset
      coded == [el EXCEPT !.codeClasses = @ \cup {"sf-codeblock-code"}]
      guttered == IF showLineNumbers
                    THEN [coded EXCEPT !.gutters = @ + 1,
                                       !.gutterText =
                                         joinNumbers([i \in 1..lineCount |-> (i - 1) + offset],
                                                     <<"\n">>),
                                       !.preClasses = @ \cup {"sf-codeblock-with-gutter"}]
                    ELSE coded
  IN  IF parameters.highlights # <<>>
        THEN applyLineHighlights(guttered, parameters.highlights, offset)
        ELSE guttered

(***************************************************************************)
(* The decorators call four functions of params.ts on the texts of the     *)
(* document.  These are functions of their arguments alone, so the model   *)
(* evaluates each of them once for every argument the rendered elements    *)
(* can give it and keeps the values in memo: memo.f[x] is f(x).            *)
(***************************************************************************)
\* What a read of the active file or the view's data may give
SourceTexts == {SourceCallout, SourceCalloutPlain, <<>>}

DocumentTexts == ({k.source : k \in ElementKinds} \cup SourceTexts) \ {null, <<>>}

linesOf(t) == LET lines == split(t, "\n") IN {lines[k] : k \in 1..Len(lines)}

\* the lines of the texts, as they stand and without their callout prefix
DocumentLines ==
  LET raw == UNION {linesOf(t) : t \in DocumentTexts}
  IN  raw \cup {stripCalloutPrefix(l) : l \in raw}

\* the contents of the callout entries of the texts
EntryContents ==
  UNION {{extractCalloutFenceEntries(t)[k].content :
            k \in 1..Len(extractCalloutFenceEntries(t))} : t \in DocumentTexts}

Tabulated ==
  [parseCodeblockParameters |-> [l \in DocumentLines |-> parseCodeblockParameters(l)],
   findFenceLineForCodeBlock |->
     [table \in {LanguageTable} |->
        [t \in DocumentTexts |->
           [code \in {k.codeText : k \in ElementKinds} |->
              [lang \in {k.langClass : k \in ElementKinds} \cup {<<>>} |->
                 findFenceLineForCodeBlock(t, code, lang, table)]]]],
   findFenceLineByLine |->
     [t \in DocumentTexts \cup {<<>>} |->
        [line \in {k.dataLine : k \in ElementKinds} |-> findFenceLineByLine(t, line)]],
   extractCalloutFenceEntries |-> [t \in DocumentTexts |-> extractCalloutFenceEntries(t)],
   normalizeCodeContentLoose |->
     [t \in {k.codeText : k \in ElementKinds} \cup EntryContents |->
        normalizeCodeContentLoose(t)]]

\* sectionInfo as the callers build it: the section's text and, when the
\* caller has looked it up already, the fence line.
NoSection == [text |-> null, fenceLine |-> null]

\* a || b on strings
orElse(a, b) == IF a # <<>> THEN a ELSE b

\* a string that is neither null nor empty
truthy(s) == s # null /\ s # <<>>

\* decorate.ts 56-63 and 75-77
paramsOfFence(fenceLineFound, language) ==
  IF truthy(fenceLineFound) THEN memo.parseCodeblockParameters[fenceLineFound]
  ELSE [DefaultParams EXCEPT !.language = language]

\* decorate.ts 65-78.  CHOOSE r \in {F(x) : x \in {e}} : TRUE is F(e) with e
\* evaluated once, as the code evaluates it into a local.
paramsOfSection(el, language, sectionInfo, codeBlockLanguages) ==
  IF ~truthy(sectionInfo.text) THEN [DefaultParams EXCEPT !.language = language]
  ELSE CHOOSE r \in {paramsOfFence(fenceLineFound, language) :
                       fenceLineFound \in
                         {IF truthy(sectionInfo.fenceLine) THEN sectionInfo.fenceLine
                          ELSE memo.findFenceLineForCodeBlock[codeBlockLanguages][
                            sectionInfo.text][el.codeText][language]}} : TRUE

\* decorate.ts 106-136 without the decorated marker of line 117
wrapAndForgetMarker(el, parameters, language, showLineNumbersSetting) ==
  LET wrapped == [el EXCEPT !.wrappers = @ + 1, !.headers = @ + 1,
                            !.wrapperLang = orElse(parameters.language, language),
                            !.headerTitle = parameters.title,
                            !.preClasses = @ \cup {"sf-codeblock-pre"}]
      showLineNumbers == /\ ~el.callout
                         /\ IF parameters.lineNumbers.enabled # "null"
                              THEN parameters.lineNumbers.enabled = "true"
                              ELSE showLineNumbersSetting
  IN  IF ~el.callout /\ (showLineNumbers \/ parameters.highlights # <<>>)
        THEN processCodeBlockLines(wrapped, parameters, showLineNumbers)
        ELSE wrapped

\* decorate.ts 106-136 without the callout test of lines 127-134
wrapAndMarkAlsoInCallout(el, parameters, language, showLineNumbersSetting) ==
  LET wrapped == [el EXCEPT !.wrappers = @ + 1, !.headers = @ + 1,
                            !.wrapperLang = orElse(parameters.language, language),
                            !.headerTitle = parameters.title,
                            !.preClasses = @ \cup {Decorated, "sf-codeblock-pre"}]
      showLineNumbers == IF parameters.lineNumbers.enabled # "null"
                           THEN parameters.lineNumbers.enabled = "true"
                           ELSE showLineNumbersSetting
  IN  IF showLineNumbers \/ parameters.highlights # <<>>
        THEN processCodeBlockLines(wrapped, parameters, showLineNumbers)
        ELSE wrapped

\* decorate.ts 106-136: the wrapper, the header, the markers and the lines.
wrapAndMark(el, parameters, language, showLineNumbersSetting) ==
  LET wrapped == [el EXCEPT !.wrappers = @ + 1, !.headers = @ + 1,
                            !.wrapperLang = orElse(parameters.language, language),
                            !.headerTitle = parameters.title,
                            !.preClasses = @ \cup {Decorated, "sf-codeblock-pre"}]
      showLineNumbers == /\ ~el.callout
                         /\ IF parameters.lineNumbers.enabled # "null"
                              THEN parameters.lineNumbers.enabled = "true"
                              ELSE showLineNumbersSetting
  IN  IF ~el.callout /\ (showLineNumbers \/ parameters.highlights # <<>>)
        THEN processCodeBlockLines(wrapped, parameters, showLineNumbers)
        ELSE wrapped

\* decorate.ts 80-137 with the ignore list matched against the language as
\* written
decorateWithParamsAsWritten(el, parameters, language, pluginSettings, iconsThrow) ==
  IF orElse(parameters.language, language) \in pluginSettings.ignoreLanguages
    THEN [el |-> el, threw |-> FALSE]
  ELSE IF iconsThrow THEN [el |-> el, threw |-> TRUE]
  ELSE [el |-> wrapAndMark(el, parameters, language, pluginSettings.showLineNumbers),
        threw |-> FALSE]

\* decorate.ts 80-137, with the parameters of lines 56-78.  What can throw
\* is outside the function (the icon manager of line 94, the header built at
\* line 111), and it throws before line 114, the first change to the
\* document.
decorateWithParams(el, parameters, language, pluginSettings, iconsThrow) ==
  IF toLowerCase(orElse(parameters.language, language)) \in pluginSettings.ignoreLanguages
    THEN [el |-> el, threw |-> FALSE]
  ELSE IF iconsThrow THEN [el |-> el, threw |-> TRUE]
  ELSE [el |-> wrapAndMark(el, parameters, language, pluginSettings.showLineNumbers),
        threw |-> FALSE]

\* decorate.ts 31-137 without the test of lines 40-42
decorateWithoutMarkerTest(el, sectionInfo, pluginSettings, iconsThrow) ==
  IF isFrontmatterCodeBlock(el) THEN [el |-> el, threw |-> FALSE]
  ELSE CHOOSE r \in {decorateWithParams(el, parameters, el.langClass, pluginSettings, iconsThrow) :
                       parameters \in {paramsOfSection(el, el.langClass, sectionInfo,
                                                       pluginSettings.languages)}} : TRUE

\* decorate.ts 31-137.  The result is the element afterwards and whether the
\* call threw.
decorateReadingViewCodeBlock(el, sectionInfo, pluginSettings, iconsThrow) ==
  IF Decorated \in el.preClasses THEN [el |-> el, threw |-> FALSE]
  ELSE IF isFrontmatterCodeBlock(el) THEN [el |-> el, threw |-> FALSE]
  ELSE CHOOSE r \in {decorateWithParams(el, parameters, el.langClass, pluginSettings, iconsThrow) :
                       parameters \in {paramsOfSection(el, el.langClass, sectionInfo,
                                                       pluginSettings.languages)}} : TRUE

\* header.ts 66-145 without the removal of the title element (117-119)
updateKeepsTitle(el, parameters) ==
  IF el.wrappers = 0 \/ el.headers = 0 THEN el
  ELSE [el EXCEPT !.wrapperLang = parameters.language,
                  !.headerTitle = IF truthy(parameters.title) THEN parameters.title ELSE @]

\* header.ts 66-145, as far as it changes what the element record holds
updateCodeBlockHeaderStyles(el, parameters) ==
  IF el.wrappers = 0 \/ el.headers = 0 THEN el
  ELSE [el EXCEPT !.wrapperLang = parameters.language, !.headerTitle = parameters.title]

\* if (fenceLine) { updateCodeBlockHeaderStyles(..., parseCodeblockParameters(fenceLine)) }
updateFromFence(el, fenceLineFound) ==
  IF truthy(fenceLineFound)
    THEN updateCodeBlockHeaderStyles(el, memo.parseCodeblockParameters[fenceLineFound])
    ELSE el

\* calloutEntries.find(entry => normalizeCodeContentLoose(entry.content) === codeText)
matchingEntry(calloutEntries, codeText) ==
  LET hits == {k \in 1..Len(calloutEntries) :
                 memo.normalizeCodeContentLoose[calloutEntries[k].content] = codeText}
  IN  IF hits = {} THEN 0 ELSE CHOOSE k \in hits : \A j \in hits : k <= j

\* the entry at the element's index before the entry with the same content
entryAtIndexFirst(calloutEntries, hit, index) ==
  IF index >= 0 /\ index < Len(calloutEntries) THEN calloutEntries[index + 1].fenceLine
  ELSE IF hit # 0 THEN calloutEntries[hit].fenceLine
  ELSE IF Len(calloutEntries) = 1 THEN calloutEntries[1].fenceLine
  ELSE null

\* The fence line chosen among the callout entries: the one with the same
\* content (hit, 0 for none), else the one at the element's index, else the
\* only one (decorate.ts 258-273 and 418-447).  index counts from 0.
entryFenceLine(calloutEntries, hit, index) ==
  IF hit # 0 THEN calloutEntries[hit].fenceLine
  ELSE IF index >= 0 /\ index < Len(calloutEntries) THEN calloutEntries[index + 1].fenceLine
  ELSE IF Len(calloutEntries) = 1 THEN calloutEntries[1].fenceLine
  ELSE null

\* decorate.ts 258-273
fenceLineOfEntries(entriesRead, codeText, index) ==
  CHOOSE r \in
    {IF calloutEntries = <<>> THEN null
     ELSE entryFenceLine(calloutEntries, matchingEntry(calloutEntries, codeText), index) :
       calloutEntries \in {entriesRead}} : TRUE

\* decorate.ts 275-283 and 409-415: the fence line by the data-line attribute
fenceLineOfAttribute(el, sourceText) ==
  IF el.dataLine # 0 THEN memo.findFenceLineByLine[sourceText][el.dataLine] ELSE null

\* a || b on fence lines
firstTruthy(a, b) == IF truthy(a) THEN a ELSE b

\* decorate.ts 306, reached when the decorator returned
releaseUnlessThrew(done) ==
  IF done.threw THEN done
  ELSE [el |-> [done.el EXCEPT !.preClasses = @ \ {Pending}], threw |-> FALSE]

\* decorate.ts 285-323, with the fence line of lines 257-283.  The icon
\* manager of header.ts 122 throws after the header has been updated.
scanWithFence(el, fenceLineFound, sourceText, pluginSettings, iconsThrow) ==
  IF el.wrappers = 0 \/ el.headers = 0
    THEN [el |-> [el EXCEPT !.preClasses = @ \ {Decorated}], threw |-> FALSE]
  ELSE IF Decorated \notin el.preClasses
    THEN CHOOSE r \in
           {releaseUnlessThrew(done) :
              done \in {decorateReadingViewCodeBlock(
                          [el EXCEPT !.preClasses = @ \cup {Pending}],
                          [text |-> sourceText, fenceLine |-> fenceLineFound],
                          pluginSettings, iconsThrow)}} : TRUE
  ELSE [el |-> updateFromFence(el, fenceLineFound),
        threw |-> iconsThrow /\ truthy(fenceLineFound)]

\* One turn of the forEach of scanCalloutCodeBlocks (decorate.ts 244-324).
scanCalloutElement(el, index, sourceText, pluginSettings, iconsThrow) ==
  IF ~el.hasCode \/ memo.normalizeCodeContentLoose[el.codeText] = <<>>
    THEN [el |-> el, threw |-> FALSE]
  ELSE CHOOSE r \in
         {scanWithFence(el, fenceLineFound, sourceText, pluginSettings, iconsThrow) :
            fenceLineFound \in
              {firstTruthy(fenceLineOfEntries(
                             IF sourceText # <<>> THEN memo.extractCalloutFenceEntries[sourceText]
                             ELSE <<>>,
                             memo.normalizeCodeContentLoose[el.codeText], index),
                           fenceLineOfAttribute(el, sourceText))}} : TRUE

\* The forEach over root.querySelectorAll(".callout pre") from position i on;
\* index counts the callout elements passed.  An exception ends the loop.
RECURSIVE scanCalloutFrom(_, _, _, _, _, _)
scanCalloutNext(elements, i, index, one, sourceText, pluginSettings, iconsThrow) ==
  IF one.threw THEN [elements EXCEPT ![i] = one.el]
  ELSE scanCalloutFrom([elements EXCEPT ![i] = one.el], i + 1, index + 1,
                       sourceText, pluginSettings, iconsThrow)

scanCalloutFrom(elements, i, index, sourceText, pluginSettings, iconsThrow) ==
  IF i > Len(elements) THEN elements
  ELSE IF ~elements[i].callout
    THEN scanCalloutFrom(elements, i + 1, index, sourceText, pluginSettings, iconsThrow)
  ELSE CHOOSE r \in
         {scanCalloutNext(elements, i, index, one, sourceText, pluginSettings, iconsThrow) :
            one \in {scanCalloutElement(elements[i], index, sourceText, pluginSettings,
                                        iconsThrow)}} : TRUE

\* decorate.ts 408-451: the section read from the source text
calloutSectionInfo(el, index, sourceText) ==
  IF sourceText = <<>> THEN NoSection
  ELSE [text |-> sourceText,
        fenceLine |->
          firstTruthy(fenceLineOfAttribute(el, sourceText),
                      CHOOSE r \in
                        {entryFenceLine(
                           calloutEntries,
                           matchingEntry(calloutEntries, memo.normalizeCodeContentLoose[el.codeText]),
                           index) :
                           calloutEntries \in {memo.extractCalloutFenceEntries[sourceText]}} : TRUE)]

\* decorate.ts 460-467: the decorator, then the release of the pending marker
decorateAndRelease(el, sectionInfo, pluginSettings, iconsThrow) ==
  CHOOSE r \in {releaseUnlessThrew(done).el :
                  done \in {decorateReadingViewCodeBlock(el, sectionInfo, pluginSettings,
                                                         iconsThrow)}} : TRUE

\* register.ts 99-107
postProcessorFenceLine(el, codeBlockLanguages) ==
  IF truthy(el.source)
    THEN memo.findFenceLineForCodeBlock[codeBlockLanguages][el.source][el.codeText][<<>>]
    ELSE null

\* One turn of the forEach of the post-processor (register.ts 84-146)
postProcessElement(el, pluginSettings, iconsThrow) ==
  IF ~el.hasCode THEN el
  ELSE IF el.langClass # <<>> /\ el.langClass \in pluginSettings.ignoreLanguages THEN el
  ELSE IF Decorated \in el.preClasses
    THEN CHOOSE r \in {updateFromFence(el, fenceLineFound) :
                         fenceLineFound \in
                           {postProcessorFenceLine(el, pluginSettings.languages)}} : TRUE
  ELSE decorateReadingViewCodeBlock(el, [text |-> el.source, fenceLine |-> null],
                                    pluginSettings, iconsThrow).el

(***************************************************************************)
(* The decorators at work.  The host renders elements, the post-processor  *)
(* and the callout scans visit them, decorateCalloutCodeBlock is called on *)
(* callout blocks, and the settings tab changes the settings.  JavaScript  *)
(* runs one handler at a time, so an action is a handler up to its await   *)
(* or from its await to its end.                                           *)
(***************************************************************************)
MaxEls == 1
MaxTasks == 1

SettingsSet ==
  [enabled : BOOLEAN, ignoreLanguages : {{}, {LangMermaid}}, showLineNumbers : {TRUE},
   languages : {LanguageTable}]

\* calloutPres.indexOf(preEl), counted from 0
calloutIndex(elements, i) == Cardinality({j \in 1..(i - 1) : elements[j].callout})

\* the elements after a scan of root: 0 for the document, else the callout
\* of one element
scanCalloutCodeBlocks(elements, root, sourceText, pluginSettings, iconsThrow) ==
  IF root = 0 THEN scanCalloutFrom(elements, 1, 0, sourceText, pluginSettings, iconsThrow)
  ELSE IF ~elements[root].callout THEN elements
  ELSE [elements EXCEPT ![root] =
          scanCalloutElement(elements[root], 0, sourceText, pluginSettings, iconsThrow).el]

withoutTask(list, t) == [k \in 1..(Len(list) - 1) |-> IF k < t THEN list[k] ELSE list[k + 1]]

\* The calls in flight are kept in one order: which of them the host resumes
\* first does not depend on the order they began in.
taskRank(task) == IF task.kind = "scan" THEN task.root ELSE MaxEls + task.root

withTask(list, task) ==
  LET before == Cardinality({k \in 1..Len(list) : taskRank(list[k]) <= taskRank(task)})
  IN  [k \in 1..(Len(list) + 1) |->
         IF k <= before THEN list[k] ELSE IF k = before + 1 THEN task ELSE list[k - 1]]

\* The calls that still hold an element of the document once element i is
\* replaced: a call on the replaced element goes on outside the document.
RECURSIVE tasksNotOn(_, _)
tasksNotOn(list, i) ==
  IF list = <<>> THEN <<>>
  ELSE IF list[1].root = i THEN tasksNotOn(Tail(list), i)
  ELSE <<list[1]>> \o tasksNotOn(Tail(list), i)

InitDom ==
  /\ pc = "rendering"
  /\ ParseIdle /\ NormIdle /\ LocIdle /\ HlIdle /\ RegIdle /\ MoreIdle
  /\ els = <<>>
  /\ settings \in SettingsSet
  /\ tasks = <<>>
  /\ memo = Tabulated

\* The host renders one more <pre>.
HostRender ==
  /\ pc = "rendering"
  /\ Len(els) < MaxEls
  /\ \E kind \in ElementKinds : els' = Append(els, FreshElement(kind))
  /\ UNCHANGED <<pc, notDomVars, settings, tasks, memo>>

\* The host renders a block again: a new element takes the place of
\* element i in the document.
HostRerender ==
  /\ pc = "rendering"
  /\ \E i \in 1..Len(els), kind \in ElementKinds :
       /\ els' = [els EXCEPT ![i] = FreshElement(kind)]
       /\ tasks' = tasksNotOn(tasks, i)
  /\ UNCHANGED <<pc, notDomVars, settings, memo>>

\* The settings tab saves other settings.
ChangeSettings ==
  /\ pc = "rendering"
  /\ \E s \in SettingsSet : s # settings /\ settings' = s
  /\ UNCHANGED <<pc, notDomVars, els, tasks, memo>>

\* register.ts 80-147 on a section that holds element i
PostProcessorPass ==
  /\ pc = "rendering"
  /\ settings.enabled
  /\ \E i \in 1..Len(els), iconsThrow \in BOOLEAN :
       els' = [els EXCEPT ![i] = postProcessElement(els[i], settings, iconsThrow)]
  /\ UNCHANGED <<pc, notDomVars, settings, tasks, memo>>

\* scanCalloutCodeBlocks that needs no read: the view gives the text, or
\* there is no active file (decorate.ts 210-325)
ScanCalloutCodeBlocks ==
  /\ pc = "rendering"
  /\ settings.enabled
  /\ \E root \in 0..Len(els), sourceText \in SourceTexts, iconsThrow \in BOOLEAN :
       els' = scanCalloutCodeBlocks(els, root, sourceText, settings, iconsThrow)
  /\ UNCHANGED <<pc, notDomVars, settings, tasks, memo>>

\* scanCalloutCodeBlocks up to its await of cachedRead (decorate.ts 210-235)
ScanAwaitsRead ==
  /\ pc = "rendering"
  /\ settings.enabled
  /\ Len(tasks) < MaxTasks
  /\ \E root \in 0..Len(els) : tasks' = withTask(tasks, [kind |-> "scan", root |-> root])
  /\ UNCHANGED <<pc, notDomVars, els, settings, memo>>

\* scanCalloutCodeBlocks from the read on (decorate.ts 235-324)
ScanResumes ==
  /\ pc = "rendering"
  /\ \E t \in 1..Len(tasks), sourceText \in SourceTexts, iconsThrow \in BOOLEAN :
       /\ tasks[t].kind = "scan"
       /\ els' = scanCalloutCodeBlocks(els, tasks[t].root, sourceText, settings, iconsThrow)
       /\ tasks' = withoutTask(tasks, t)
  /\ UNCHANGED <<pc, notDomVars, settings, memo>>

\* The read of line 235 fails: nothing catches it, the scan ends there and
\* its promise is rejected with nobody to handle it.  The document and the
\* calls in flight are then as a scan resumed with an empty text leaves
\* them, so what the program does afterwards is what it does after such a
\* ScanResumes step; this step itself ends the behaviour.
ScanReadFails ==
  /\ pc = "rendering"
  /\ pc' = "unhandled rejection"
  /\ \E t \in 1..Len(tasks) :
       /\ tasks[t].kind = "scan"
       /\ tasks' = withoutTask(tasks, t)
  /\ UNCHANGED <<notDomVars, els, settings, memo>>

\* decorateCalloutCodeBlock on element i, to its end or to its await
\* (decorate.ts 374-406 and, without a read, 408-468)
DecorateCalloutCodeBlock ==
  /\ pc = "rendering"
  /\ \E i \in 1..Len(els), source \in {"no file", "view", "read"}, iconsThrow \in BOOLEAN :
       LET marked == [els[i] EXCEPT !.preClasses = @ \cup {Pending}]
           index == calloutIndex(els, i)
       IN  /\ els[i].callout /\ els[i].hasCode
           /\ IF Decorated \in els[i].preClasses THEN UNCHANGED <<els, tasks>>
              ELSE IF trim(els[i].codeText) = <<>>
                THEN /\ els' = [els EXCEPT ![i].preClasses = @ \ {Pending}]
                     /\ UNCHANGED tasks
              ELSE IF source = "no file"
                THEN /\ els' = [els EXCEPT ![i] =
                                  decorateAndRelease(marked, NoSection, settings, iconsThrow)]
                     /\ UNCHANGED tasks
              ELSE IF source = "view"
                THEN /\ \E sectionInfo \in {calloutSectionInfo(marked, index, SourceCallout)} :
                          els' = [els EXCEPT ![i] =
                                    decorateAndRelease(marked, sectionInfo, settings, iconsThrow)]
                     /\ UNCHANGED tasks
              ELSE /\ Len(tasks) < MaxTasks
                   /\ els' = [els EXCEPT ![i] = marked]
                   /\ tasks' = withTask(tasks, [kind |-> "decorateCallout", root |-> i])
  /\ UNCHANGED <<pc, notDomVars, settings, memo>>

\* decorateCalloutCodeBlock from the read on (decorate.ts 404-468)
DecorateCalloutResumes ==
  /\ pc = "rendering"
  /\ \E t \in 1..Len(tasks), sourceText \in SourceTexts, iconsThrow \in BOOLEAN :
       LET i == tasks[t].root
       IN  /\ tasks[t].kind = "decorateCallout"
           /\ \E sectionInfo \in {calloutSectionInfo(els[i], calloutIndex(els, i), sourceText)} :
                els' = [els EXCEPT ![i] =
                          decorateAndRelease(els[i], sectionInfo, settings, iconsThrow)]
           /\ tasks' = withoutTask(tasks, t)
  /\ UNCHANGED <<pc, notDomVars, settings, memo>>

\* The read of line 404 fails: lines 452-457 catch it, the decorator runs
\* without a section.
DecorateCalloutReadFails ==
  /\ pc = "rendering"
  /\ \E t \in 1..Len(tasks), iconsThrow \in BOOLEAN :
       LET i == tasks[t].root
       IN  /\ tasks[t].kind = "decorateCallout"
           /\ els' = [els EXCEPT ![i] = decorateAndRelease(els[i], NoSection, settings, iconsThrow)]
           /\ tasks' = withoutTask(tasks, t)
  /\ UNCHANGED <<pc, notDomVars, settings, memo>>

NextDom ==
  \/ HostRender
  \/ HostRerender
  \/ ChangeSettings
  \/ PostProcessorPass
  \/ ScanCalloutCodeBlocks
  \/ ScanAwaitsRead
  \/ ScanResumes
  \/ ScanReadFails
  \/ DecorateCalloutCodeBlock
  \/ DecorateCalloutResumes
  \/ DecorateCalloutReadFails

SpecDom == InitDom /\ [][NextDom]_vars

(***************************************************************************)
(* The fence line a scan binds to the callout <pre> at one index           *)
(***************************************************************************)
TargetAb == <<"a", "\n", "b", "\n">>

BindItems == {ItemText, ItemJsAbc, ItemCalloutAbe, ItemQuoted, ItemNested}
BindTargets == {TargetAbe, TargetAb, TargetAbx, TargetBlank}

BindContents ==
  UNION {{i.entries[k].content : k \in 1..Len(i.entries)} : i \in BindItems}

\* A source of up to MaxItems items, the text of one callout <pre> and its
\* index among the callout <pre> elements of the root.
InitBind ==
  /\ pc = "start"
  /\ ParseIdle /\ NormIdle /\ HlIdle /\ RegIdle /\ MoreIdle
  /\ \E n \in 0..MaxItems : doc \in [1..n -> BindItems]
  /\ section = sourceOf(doc)
  /\ targetText \in BindTargets
  /\ targetLang = null
  /\ langTable = null
  /\ lineHint \in 0..MaxItems
  /\ result = NoResult
  /\ els = <<>>
  /\ settings = null
  /\ tasks = <<>>
  /\ memo = [normalizeCodeContentLoose |->
               [t \in BindTargets \cup BindContents |-> normalizeCodeContentLoose(t)]]

\* decorate.ts 241-273 for the <pre> at index lineHint: a block without code
\* text is passed over, the others get their fence line from the entries.
BindFenceLine ==
  /\ pc = "start"
  /\ LET calloutEntries ==
           IF section # <<>> THEN extractCalloutFenceEntries(section) ELSE <<>>
         codeText == memo.normalizeCodeContentLoose[targetText]
     IN  IF codeText = <<>>
           THEN pc' = "passed over" /\ UNCHANGED result
           ELSE /\ pc' = "bound"
                /\ result' = fenceLineOfEntries(calloutEntries, codeText, lineHint)
  /\ UNCHANGED <<doc, section, targetText, targetLang, langTable, lineHint, parseVars,
               normVars, laterVars>>

NextBind == BindFenceLine

SpecBind == InitBind /\ [][NextBind]_vars

(***************************************************************************)
(* Decoration of one block under every ln and hl directive                 *)
(***************************************************************************)
\* the ln directives, with what they mean
LnDirectives ==
  {[word |-> <<>>, enabled |-> "null", offset |-> 1],
   [word |-> <<"l", "n", ":", "0">>, enabled |-> "true", offset |-> 0],
   [word |-> <<"l", "n", ":", "1">>, enabled |-> "true", offset |-> 1],
   [word |-> <<"l", "n", ":", "2">>, enabled |-> "true", offset |-> 2],
   [word |-> <<"l", "n", ":", "1", "2">>, enabled |-> "true", offset |-> 12],
   [word |-> <<"l", "n", ":", "t", "r", "u", "e">>, enabled |-> "true", offset |-> 1],
   [word |-> <<"l", "n", ":", "f", "a", "l", "s", "e">>, enabled |-> "false", offset |-> 1]}

\* the hl directives, with the line numbers they name
HlDirectives ==
  {[word |-> <<>>, lines |-> {}],
   [word |-> <<"h", "l", ":", "1">>, lines |-> {1}],
   [word |-> <<"h", "l", ":", "2", "-", "3">>, lines |-> {2, 3}],
   [word |-> <<"h", "l", ":", "3", ",", "1", ",", "1">>, lines |-> {1, 3}],
   [word |-> <<"h", "l", ":", "1", "3", ",", "2">>, lines |-> {2, 13}]}

\* the code of a block, with the number of its lines
LineTexts ==
  {[codeText |-> TargetAbc, lineCount |-> 3], [codeText |-> TargetAbcSpaced, lineCount |-> 5],
   [codeText |-> <<"a">>, lineCount |-> 1], [codeText |-> <<>>, lineCount |-> 0]}

nonEmpty(w) == w # <<>>

\* the opening fence line with the directives
fenceOf(ln, hl) ==
  lineOfWords(<<Backquote, Backquote, Backquote>>,
              SelectSeq(<<LangJs, ln.word, hl.word>>, nonEmpty))

\* A block at the top level or in a callout, not yet decorated, with the
\* fence line the caller has found for it.  doc keeps the directives and the
\* code the block was written with.
InitLines ==
  /\ pc = "start"
  /\ NormIdle /\ HlIdle /\ RegIdle /\ MoreIdle
  /\ \E ln \in LnDirectives, hl \in HlDirectives, code \in LineTexts, callout \in BOOLEAN :
       /\ doc = <<ln, hl, code>>
       /\ fenceLine = fenceOf(ln, hl)
       /\ section = fenceOf(ln, hl) \o <<"\n">> \o code.codeText
       /\ els = <<FreshElement([callout |-> callout, frontmatter |-> FALSE, hasCode |-> TRUE,
                                codeText |-> code.codeText, langClass |-> LangJs,
                                source |-> null, dataLine |-> 0])>>
       /\ memo = [parseCodeblockParameters |->
                    [l \in {fenceOf(ln, hl)} |-> parseCodeblockParameters(l)]]
  /\ tokens = <<>>
  /\ hlEntries = <<>>
  /\ params = NoParams
  /\ targetText = null
  /\ targetLang = null
  /\ langTable = null
  /\ lineHint = 0
  /\ result = NoResult
  /\ settings \in [enabled : {TRUE}, ignoreLanguages : {{}}, showLineNumbers : BOOLEAN,
                   languages : {LanguageTable}]
  /\ tasks = <<>>

\* decorateReadingViewCodeBlock(preEl, sectionInfo, settings) with the fence
\* line in sectionInfo (decorate.ts 31-137)
DecorateLines ==
  /\ pc = "start"
  /\ \E iconsThrow \in BOOLEAN :
       LET done == decorateReadingViewCodeBlock(
                     els[1], [text |-> section, fenceLine |-> fenceLine], settings, iconsThrow)
       IN  /\ els' = <<done.el>>
           /\ pc' = IF done.threw THEN "threw" ELSE "decorated"
  /\ UNCHANGED <<settings, tasks, memo, parseVars, normVars, locVars, hlVars, regVars,
               moreVars>>

NextLines == DecorateLines

SpecLines == InitLines /\ [][NextLines]_vars

(***************************************************************************)
(* The live editor: buildCodeBlockDecorations (src/src/widgets.ts) and     *)
(* findCodeBlocks of the highlighter (src/unnamed/part_005).  The document *)
(* is the sequence of its lines; a decoration is a record with the line it *)
(* is added at, and a block of findCodeBlocks has the character positions  *)
(* the code computes, counted from 0 with one position per line break.     *)
(***************************************************************************)
\* stripCalloutPrefix(line.text).trimStart() (widgets.ts 223-224, 250-251)
fenceTextOf(lineText) == trimStart(stripCalloutPrefix(lineText))

\* the variables of the first loop (widgets.ts 215-219)
CountStart ==
  [tempInBlock |-> FALSE, tempFenceChar |-> "", tempBlockStart |-> 0, tempLineCount |-> 0,
   blockLineCounts |-> <<>>]

\* one turn of the first loop (widgets.ts 221-245)
countStep(st, lineText, i) ==
  LET fenceText == fenceTextOf(lineText)
  IN  IF ~st.tempInBlock
        THEN (IF fenceMatch(fenceText)
                THEN [st EXCEPT !.tempInBlock = TRUE, !.tempFenceChar = fenceText[1],
                                !.tempBlockStart = i, !.tempLineCount = 0]
                ELSE st)
      ELSE IF closingFence(st.tempFenceChar, fenceText)
        THEN [st EXCEPT !.blockLineCounts = (st.tempBlockStart :> st.tempLineCount) @@ @,
                        !.tempInBlock = FALSE, !.tempFenceChar = ""]
      ELSE [st EXCEPT !.tempLineCount = @ + 1]

RECURSIVE countPass(_, _, _)
countPass(st, lines, i) ==
  IF i > Len(lines) THEN st
  ELSE CHOOSE r \in {countPass(x, lines, i + 1) : x \in {countStep(st, lines[i], i)}} : TRUE

\* blockLineCounts.get(i) || 0
lineCountAt(blockLineCounts, i) ==
  IF i \in DOMAIN blockLineCounts THEN blockLineCounts[i] ELSE 0

\* Math.max(2, String(blockLineCount).length) + 1, the number of the em width
gutterWidthOf(blockLineCount) ==
  LET digits == Len(numberToString(blockLineCount))
  IN  (IF digits > 2 THEN digits ELSE 2) + 1

\* the variables of the second loop (widgets.ts 205-212) and the builder
BuildStart ==
  [inBlock |-> FALSE, skipBlock |-> FALSE, fenceChar |-> "", fenceLine |-> <<>>,
   currentLang |-> <<"u", "n", "k", "n", "o", "w", "n">>, lineNumInBlock |-> 0,
   blockLineCount |-> 0, blockLineNumbersEnabled |-> "null", added |-> <<>>]

\* a line decoration or a header widget added at the start of line i
decorationAt(i, kind, lang, title, lineCount, lineNum, gutterWidth, ln) ==
  [line |-> i, kind |-> kind, lang |-> lang, title |-> title, lineCount |-> lineCount,
   lineNum |-> lineNum, gutterWidth |-> gutterWidth, ln |-> ln]

\* leaving a block (widgets.ts 318-324 and 333-337)
leaveBlock(st) ==
  [st EXCEPT !.inBlock = FALSE, !.skipBlock = FALSE, !.fenceChar = "", !.fenceLine = <<>>,
             !.currentLang = BuildStart.currentLang, !.blockLineNumbersEnabled = "null"]

\* an opening fence (widgets.ts 255-311)
openFence(st, fenceText, i, blockLineCounts, pluginSettings) ==
  LET parameters == parseCodeblockParameters(fenceText)
      lang == orElse(parameters.language, BuildStart.currentLang)
      count == lineCountAt(blockLineCounts, i)
      opened == [st EXCEPT !.inBlock = TRUE, !.lineNumInBlock = 0, !.blockLineCount = count,
                           !.fenceChar = fenceText[1], !.fenceLine = fenceText,
                           !.currentLang = lang,
                           !.blockLineNumbersEnabled = parameters.lineNumbers.enabled]
  IN  IF toLowerCase(lang) \in pluginSettings.ignoreLanguages
        THEN [opened EXCEPT !.skipBlock = TRUE]
        ELSE [opened EXCEPT !.added = @ \o
                <<decorationAt(i, "fence-start", lang, null, numberToString(count), null,
                               gutterWidthOf(count), null),
                  decorationAt(i, "header", lang, parameters.title, null, null, 0, null)>>]

\* a content line (widgets.ts 345-363)
contentLine(st, i) ==
  [st EXCEPT !.lineNumInBlock = @ + 1,
             !.added = @ \o
               <<decorationAt(i, "content-line", st.currentLang, null, null,
                              numberToString(st.lineNumInBlock + 1),
                              gutterWidthOf(st.blockLineCount),
                              st.blockLineNumbersEnabled)>>]

\* one turn of the second loop (widgets.ts 247-364)
buildStep(st, lineText, i, blockLineCounts, pluginSettings) ==
  LET fenceText == fenceTextOf(lineText)
  IN  IF ~st.inBlock
        THEN (IF fenceMatch(fenceText)
                THEN openFence(st, fenceText, i, blockLineCounts, pluginSettings)
                ELSE st)
      ELSE IF closingFence(st.fenceChar, fenceText)
        THEN (IF st.skipBlock THEN leaveBlock(st)
              ELSE leaveBlock([st EXCEPT !.added = @ \o
                                 <<decorationAt(i, "fence-end", st.currentLang, null, null,
                                                null, 0, null)>>]))
      ELSE IF st.skipBlock THEN st
      ELSE contentLine(st, i)

RECURSIVE buildPass(_, _, _, _, _)
buildPass(st, lines, i, blockLineCounts, pluginSettings) ==
  IF i > Len(lines) THEN st
  ELSE CHOOSE r \in
         {buildPass(x, lines, i + 1, blockLineCounts, pluginSettings) :
            x \in {buildStep(st, lines[i], i, blockLineCounts, pluginSettings)}} : TRUE

\* buildCodeBlockDecorations (widgets.ts 194-367): what the builder holds
buildCodeBlockDecorations(lines, pluginSettings) ==
  IF ~pluginSettings.enabled THEN <<>>
  ELSE buildPass(BuildStart, lines, 1,
                 countPass(CountStart, lines, 1).blockLineCounts, pluginSettings).added

\* line.from and line.to of line i
RECURSIVE lineFrom(_, _)
lineFrom(lines, i) == IF i = 1 THEN 0 ELSE lineFrom(lines, i - 1) + Len(lines[i - 1]) + 1
lineTo(lines, i) == lineFrom(lines, i) + Len(lines[i])

\* the variables of findCodeBlocks (part_005 64-69)
FindStart ==
  [inBlock |-> FALSE, fenceChar |-> "", fenceLen |-> 0, language |-> null, contentFrom |-> 0,
   blocks |-> <<>>]

\* the run of one fence character that text.match(/^(BQ{3,}|~{3,})\s*(\S*)/)
\* takes as its first group: its length, or 0 without a match
openingRun(lineText) ==
  IF lineText = <<>> \/ lineText[1] \notin FenceChars THEN 0
  ELSE LET n == RunLen(lineText, 1, {lineText[1]}) IN IF n >= 3 THEN n ELSE 0

\* match[2] || undefined: the word after the run and the white space
wordAfterRun(lineText, n) ==
  LET start == n + 1 + RunLen(lineText, n + 1, WS)
      word == SubSeq(lineText, start, start + RunLenNot(lineText, start, WS) - 1)
  IN  IF word = <<>> THEN null ELSE word

\* new RegExp("^\\" + fenceChar + "{" + fenceLen + ",}\\s*$").test(text)
closingOfLength(fenceChar, fenceLen, lineText) ==
  LET n == RunLen(lineText, 1, {fenceChar})
  IN  n >= fenceLen /\ \A k \in (n + 1)..Len(lineText) : lineText[k] \in WS

\* one turn of the loop of findCodeBlocks (part_005 71-96)
findStep(st, lines, i) ==
  IF ~st.inBlock
    THEN (IF openingRun(lines[i]) > 0
            THEN [st EXCEPT !.inBlock = TRUE, !.fenceChar = lines[i][1],
                            !.fenceLen = openingRun(lines[i]),
                            !.language = wordAfterRun(lines[i], openingRun(lines[i])),
                            !.contentFrom = lineTo(lines, i) + 1]
            ELSE st)
  ELSE IF closingOfLength(st.fenceChar, st.fenceLen, lines[i])
    THEN LET contentTo == lineFrom(lines, i) - 1
         IN  [st EXCEPT !.inBlock = FALSE,
                        !.blocks = IF st.contentFrom <= contentTo
                                     THEN Append(@, [language |-> st.language,
                                                     contentFrom |-> st.contentFrom,
                                                     contentTo |-> contentTo])
                                     ELSE @]
  ELSE st

RECURSIVE findPass(_, _, _)
findPass(st, lines, i) ==
  IF i > Len(lines) THEN st
  ELSE CHOOSE r \in {findPass(x, lines, i + 1) : x \in {findStep(st, lines, i)}} : TRUE

\* findCodeBlocks (part_005 62-99)
findCodeBlocks(lines) == findPass(FindStart, lines, 1).blocks

\* Documents of the editor.  roles tells what each line of an item is in
\* Markdown: a fence closes the block opened by a fence of the same
\* character that is not longer, behind quote markers or up to three spaces.
ItemMermaid ==
  [lines |-> <<<<Backquote, Backquote, Backquote, "m", "e", "r", "m", "a", "i", "d">>,
      <<"a">>, <<"b">>, <<Backquote, Backquote, Backquote>>>>,
   roles |-> <<"open", "content", "content", "close">>]

ItemIndented ==
  [lines |-> <<<<" ", " ", Backquote, Backquote, Backquote, "j", "s">>, <<" ", " ", "a">>,
      <<" ", " ", Backquote, Backquote, Backquote>>>>,
   roles |-> <<"open", "content", "close">>]

ItemUnclosed ==
  [lines |-> <<<<Backquote, Backquote, Backquote, "j", "s">>, <<"a">>, <<"b">>>>,
   roles |-> <<"open", "content", "content">>,
   blocks |-> <<>>]

EditorItems == {ItemText, ItemJsAbc, ItemMermaid, ItemLongFence, ItemQuoted, ItemIndented}

EditorSettings ==
  [enabled : BOOLEAN, ignoreLanguages : {{}, {LangMermaid}}, showLineNumbers : {TRUE},
   languages : {LanguageTable}]

\* A document of up to MaxItems items, the last of which may be a block that
\* is never closed, open in an editor.
InitEditor ==
  /\ pc = "editing"
  /\ ParseIdle /\ NormIdle /\ HlIdle /\ RegIdle /\ CopyIdle
  /\ \E n \in 0..MaxItems :
       doc \in {d \in [1..n -> EditorItems \cup {ItemUnclosed}] :
                  \A k \in 1..(n - 1) : d[k] # ItemUnclosed}
  /\ section = sourceOf(doc)
  /\ targetText = null
  /\ targetLang = null
  /\ langTable = null
  /\ lineHint = 0
  /\ result = NoResult
  /\ els = <<>>
  /\ settings \in EditorSettings
  /\ tasks = <<>>
  /\ memo = <<>>
  /\ decorations = NoDecorations
  /\ blocks = NoBlocks

\* the state field of the editor extension builds its decorations
BuildCodeBlockDecorations ==
  /\ pc = "editing"
  /\ decorations = NoDecorations
  /\ decorations' = [set |-> buildCodeBlockDecorations(split(section, "\n"), settings)]
  /\ UNCHANGED <<pc, blocks, copyVars, parseVars, normVars, locVars, domVars, hlVars, regVars>>

\* the view plugin of the highlighter looks for the blocks to colour
FindCodeBlocks ==
  /\ pc = "editing"
  /\ blocks = NoBlocks
  /\ blocks' = [list |-> findCodeBlocks(split(section, "\n"))]
  /\ UNCHANGED <<pc, decorations, copyVars, parseVars, normVars, locVars, domVars, hlVars,
               regVars>>

NextEditor == BuildCodeBlockDecorations \/ FindCodeBlocks

SpecEditor == InitEditor /\ [][NextEditor]_vars

(***************************************************************************)
(* findFenceLineForCodeBlock under language filters of either case           *)
(***************************************************************************)
MaxMatchItems == 2

LangJsUpper == <<"J", "S">>
LangRust == <<"r", "u", "s", "t">>
LangRustUpper == <<"R", "u", "s", "t">>

ItemRustAbc ==
  [lines |-> <<<<Backquote, Backquote, Backquote, "R", "u", "s", "t">>, <<"a">>, <<"b">>,
      <<"c">>, <<Backquote, Backquote, Backquote>>>>,
   roles |-> <<"open", "content", "content", "content", "close">>,
   blocks |-> <<[fenceLine |-> <<Backquote, Backquote, Backquote, "R", "u", "s", "t">>,
      content |-> <<<<"a">>, <<"b">>, <<"c">>>>]>>]

MatchItems == {ItemText, ItemJsAbc, ItemPythonAbc, ItemQuoted, ItemRustAbc}
MatchTargets == {TargetAbc, TargetAb, TargetEmpty, TargetBlank}
MatchLanguages ==
  {null, <<>>, LangJs, LangJsUpper, LangJavascript, LangPython, LangRust, LangRustUpper}

\* A source of up to MaxMatchItems items, the last of which may be a block
\* that is never closed, a code text, a language and a table or none.
InitMatch ==
  /\ pc = "start"
  /\ LaterIdle
  /\ ParseIdle
  /\ NormIdle
  /\ \E n \in 0..MaxMatchItems :
       doc \in {d \in [1..n -> MatchItems \cup {ItemUnclosed}] :
                  \A k \in 1..(n - 1) : d[k] # ItemUnclosed}
  /\ section = sourceOf(doc)
  /\ targetText \in MatchTargets
  /\ targetLang \in MatchLanguages
  /\ langTable \in {null, LanguageTable}
  /\ lineHint = 0
  /\ result = NoResult

SpecMatch == InitMatch /\ [][NextLocate]_vars

\* The language written on the fence of a block of the source, in lower case.
WrittenLanguage(b) ==
  IF b.fenceLine = ItemRustAbc.blocks[1].fenceLine THEN LangRust
  ELSE IF b.fenceLine = ItemPythonAbc.blocks[1].fenceLine THEN LangPython
  ELSE LangJs

\* Pairs of a fence language and a filter that the alias table resolves to
\* one name: js is an alias of javascript, and the table is read in lower case.
SameCanonicalName ==
  {<<LangJs, LangJs>>, <<LangJs, LangJsUpper>>, <<LangJs, LangJavascript>>,
   <<LangPython, LangPython>>}

Accepted(b) ==
  \/ targetLang \in {null, <<>>}
  \/ WrittenLanguage(b) = targetLang
  \/ langTable # null /\ <<WrittenLanguage(b), targetLang>> \in SameCanonicalName

\* The code text is the content of the block, or begins with the same two lines.
SameText(b) == BlockText(b) \o <<"\n">> = targetText
SameStart(b) ==
  Len(targetText) >= 3 /\ SubSeq(BlockText(b), 1, 3) = SubSeq(targetText, 1, 3)

AcceptedExacts == {i \in DOMAIN Blocks : Accepted(Blocks[i]) /\ SameText(Blocks[i])}
AcceptedStarts == {i \in DOMAIN Blocks : Accepted(Blocks[i]) /\ SameStart(Blocks[i])}
Located == pc = "located" /\ targetText \notin {TargetEmpty, TargetBlank}

ResultIsAClosedMatchingBlock ==
  pc = "located" =>
    /\ result # null =>
         \E i \in DOMAIN Blocks : Blocks[i].fenceLine = result /\ Accepted(Blocks[i])
    /\ section = <<>> => result = null
    /\ targetText \in {TargetEmpty, TargetBlank} => result = null
    /\ (\A i \in DOMAIN Blocks : ~SameText(Blocks[i]) /\ ~SameStart(Blocks[i]))
         => result = null

\* the only block with the content of the code text is the last and unclosed
UnclosedBlockWitness ==
  /\ pc = "located"
  /\ Len(doc) = 2 /\ doc[1] = ItemText /\ doc[2] = ItemUnclosed
  /\ targetText = TargetAb
  /\ targetLang = LangJs
  /\ result = null

(***************************************************************************)
(* Claims about the live editor                                            *)
(***************************************************************************)
EdLines == split(section, "\n")
Built == decorations # NoDecorations /\ settings.enabled
Found == blocks # NoBlocks
NothingIgnored == settings.ignoreLanguages = {}

DecosAt(i) == {k \in 1..Len(decorations.set) : decorations.set[k].line = i}
HasDeco(kind, i) == \E k \in DecosAt(i) : decorations.set[k].kind = kind

\* The lines that open a block in Markdown, the line that ends the block
\* opened at line i (one past the last line when it is never closed) and the
\* lines between the two.
OpenLines == {i \in DOMAIN Roles : Roles[i] = "open"}
BlockEnd(i) ==
  LET closes == {j \in DOMAIN Roles : j > i /\ Roles[j] = "close"}
  IN  IF closes = {} THEN Len(Roles) + 1 ELSE CHOOSE j \in closes : \A m \in closes : j <= m
Interior(i) == (i + 1)..(BlockEnd(i) - 1)
ContentRoles == {"content", "fence-like content"}

IgnoredAt(i) == fenceLanguage(fenceTextOf(EdLines[i])) \in settings.ignoreLanguages

\* documents of blocks in which every fence is a bare run of three markers
PlainItems == {ItemText, ItemJsAbc, ItemMermaid}
PlainDoc == \A k \in DOMAIN doc : doc[k] \in PlainItems
CountedDoc == \A k \in DOMAIN doc : doc[k] \in PlainItems \cup {ItemUnclosed}
NestedDoc == \A k \in DOMAIN doc : doc[k] \in {ItemText, ItemJsAbc, ItemLongFence}

\* C31 as stated: a block of an ignore-listed language keeps the line
\* decorations of its fence-start and fence-end lines, has no header widget and
\* no decoration on its interior lines, and every later block that is not
\* ignored is decorated with fence-start and header.  The builder leaves the
\* opening fence before it adds the fence-start decoration, and the closing
\* fence before it adds the fence-end decoration.
IgnoredBlockKeepsFrame ==
  (Built /\ PlainDoc) =>
    \A i \in OpenLines :
      IgnoredAt(i) =>
        /\ HasDeco("fence-start", i)
        /\ HasDeco("fence-end", BlockEnd(i))
        /\ ~HasDeco("header", i)
        /\ \A j \in Interior(i) : DecosAt(j) = {}
        /\ \A n \in OpenLines :
             (n > i /\ ~IgnoredAt(n)) => HasDeco("fence-start", n) /\ HasDeco("header", n)

\* C32 as stated: the scans of the live editor close a block only at a fence
\* at least as long as the opening one, so that a shorter fence inside the
\* block is content: the builder decorates exactly the opening lines as
\* fence-start, the closing lines as fence-end and the lines between as
\* content lines, and the ranges of findCodeBlocks are exactly the lines
\* between.  The builder closes a block at any run of three or more
\* markers.
ScansAreNestedFenceAware ==
  NestedDoc =>
    /\ (Built /\ NothingIgnored) =>
         \A i \in DOMAIN Roles :
           /\ HasDeco("fence-start", i) <=> Roles[i] = "open"
           /\ HasDeco("fence-end", i) <=> Roles[i] = "close"
           /\ HasDeco("content-line", i) <=> Roles[i] \in ContentRoles
    /\ Found =>
         \A i \in DOMAIN Roles :
           (\E b \in DOMAIN blocks.list :
              /\ blocks.list[b].contentFrom <= lineFrom(EdLines, i)
              /\ lineTo(EdLines, i) <= blocks.list[b].contentTo)
             <=> Roles[i] \in ContentRoles

\* C33 as stated: in every block that is not ignored the interior lines carry
\* the numbers 1..n in order, and the line count of the fence-start line and
\* the gutter width derived from it are those of n, the number of content
\* lines of the block, whether the block is closed or left open at the end of
\* the document.  The first loop records a count only at a closing fence.
LineCountIsTheNumberOfLines ==
  (Built /\ CountedDoc) =>
    \A i \in OpenLines :
      ~IgnoredAt(i) =>
        LET n == Cardinality(Interior(i))
        IN  /\ \A j \in Interior(i) :
                 \E k \in DecosAt(j) :
                   /\ decorations.set[k].kind = "content-line"
                   /\ decorations.set[k].lineNum = numberToString(j - i)
            /\ \E k \in DecosAt(i) :
                 /\ decorations.set[k].kind = "fence-start"
                 /\ decorations.set[k].lineCount = numberToString(n)
                 /\ decorations.set[k].gutterWidth = gutterWidthOf(n)

\* the state of the locator's scan after line i, for a text no block holds
LocatorAfter(i) ==
  locateScan(ScanStart, SubSeq(EdLines, 1, i), 1, <<"z">>, null, null)
LocatorOpensAt(i) == ~LocatorAfter(i - 1).inBlock /\ LocatorAfter(i).inBlock
LocatorClosesAt(i) == LocatorAfter(i - 1).inBlock /\ ~LocatorAfter(i).inBlock

\* C34 as stated: a line opens a block in the builder exactly when it opens
\* one in findFenceLineForCodeBlock, and closes one exactly when it closes
\* one there, indented lines and quoted lines included.  The builder trims the
\* line after stripping the quote markers, the locator does not.
BuilderAndLocatorAgreeOnFences ==
  (Built /\ NothingIgnored) =>
    \A i \in DOMAIN EdLines :
      /\ HasDeco("fence-start", i) <=> LocatorOpensAt(i)
      /\ HasDeco("fence-end", i) <=> LocatorClosesAt(i)

\* C39 as stated: a line lies in the content range of a block of findCodeBlocks
\* exactly when the builder decorates it as a content line, also for quoted,
\* indented and nested fences.  findCodeBlocks reads the raw line, the builder
\* the stripped and trimmed one; findCodeBlocks drops a block that is never
\* closed and the builder decorates it.
ColouredLinesAreFramedLines ==
  (Built /\ Found /\ NothingIgnored) =>
    \A i \in DOMAIN EdLines :
      (\E b \in DOMAIN blocks.list :
         /\ blocks.list[b].contentFrom <= lineFrom(EdLines, i)
         /\ lineTo(EdLines, i) <= blocks.list[b].contentTo)
        <=> HasDeco("content-line", i)

(***************************************************************************)
(* Claims about the decorators                                             *)
(***************************************************************************)
\* The sections a caller can hand to the decorator for an element.
SectionInfos(el) ==
  {NoSection, [text |-> el.source, fenceLine |-> null]}
    \cup {calloutSectionInfo(el, 0, t) : t \in SourceTexts}

DecoratedEls == {i \in 1..Len(els) : Decorated \in els[i].preClasses}

\* C11: decorateReadingViewCodeBlock called on a <pre> that carries the
\* decorated marker changes nothing, whatever section it is given and whether
\* or not the icon manager would throw, and every block has at most one
\* wrapper and one header.
DecorateIsIdempotent ==
  /\ \A i \in DecoratedEls :
       \A sectionInfo \in SectionInfos(els[i]), iconsThrow \in BOOLEAN :
         decorateReadingViewCodeBlock(els[i], sectionInfo, settings, iconsThrow)
           = [el |-> els[i], threw |-> FALSE]
  /\ \A i \in 1..Len(els) : els[i].wrappers <= 1 /\ els[i].headers <= 1

\* A decorated block with its wrapper, header and gutter, on which the
\* decorator would add a second wrapper if it did not test the marker.
DecorateIsIdempotentWitness ==
  \E i \in DecoratedEls :
    /\ els[i].wrappers = 1 /\ els[i].headers = 1 /\ els[i].gutters = 1
    /\ decorateReadingViewCodeBlock(els[i], NoSection, settings, FALSE).el = els[i]
    /\ decorateWithoutMarkerTest(els[i], NoSection, settings, FALSE).el.wrappers = 2

\* The language the ignore list is asked about: the language of the fence
\* line found for the block, else the language- class, in lower case.
ResolvedLanguage(el, sectionInfo) ==
  toLowerCase(orElse(paramsOfSection(el, el.langClass, sectionInfo, settings.languages).language,
                     el.langClass))

\* the section the post-processor hands over (register.ts 99, 139-145)
PostProcessorSection(el) == [text |-> el.source, fenceLine |-> null]

IgnoreNothing == [settings EXCEPT !.ignoreLanguages = {}]

\* C12: when the resolved language of a block is in settings.ignoreLanguages
\* the decorator returns the element as it was, without the decorated marker
\* and without reaching the code that can throw; a post-processor pass
\* leaves it alone too, and with the language off the ignore list the same
\* call and the same pass decorate it.
IgnoredLanguageLeavesBlockAlone ==
  \A i \in 1..Len(els) :
    \A sectionInfo \in SectionInfos(els[i]), iconsThrow \in BOOLEAN :
      (/\ Decorated \notin els[i].preClasses
       /\ ~isFrontmatterCodeBlock(els[i])
       /\ ResolvedLanguage(els[i], sectionInfo) \in settings.ignoreLanguages)
      => /\ decorateReadingViewCodeBlock(els[i], sectionInfo, settings, iconsThrow)
              = [el |-> els[i], threw |-> FALSE]
         /\ Decorated \in
              decorateReadingViewCodeBlock(els[i], sectionInfo, IgnoreNothing, FALSE).el.preClasses
         /\ sectionInfo = PostProcessorSection(els[i]) /\ els[i].hasCode
              => /\ postProcessElement(els[i], settings, iconsThrow) = els[i]
                 /\ Decorated \in postProcessElement(els[i], IgnoreNothing, FALSE).preClasses

\* A block of class Mermaid, rendered and not decorated, while the ignore
\* list holds mermaid: the class as written is not in the list, the resolved
\* language is.
IgnoredLanguageWitness ==
  \E i \in 1..Len(els) :
    /\ els[i].langClass = LangMermaidUpper
    /\ els[i].langClass \notin settings.ignoreLanguages
    /\ ResolvedLanguage(els[i], PostProcessorSection(els[i])) \in settings.ignoreLanguages
    /\ settings.enabled
    /\ els[i].preClasses = {} /\ els[i].wrappers = 0
    /\ postProcessElement(els[i], settings, FALSE) = els[i]
    /\ postProcessElement(els[i], IgnoreNothing, FALSE).wrappers = 1

\* C13: at every point where control is back at the event loop no <pre>
\* carries the pending marker and the decorated marker together.
NeverPendingAndDecorated ==
  \A i \in 1..Len(els) : ~(Pending \in els[i].preClasses /\ Decorated \in els[i].preClasses)

\* C14: whatever the order of post-processor passes, callout scans,
\* decorateCalloutCodeBlock calls, reads that resolve or fail and renders, no
\* <pre> has more than one wrapper or more than one header; a <pre> has its
\* wrapper and header exactly when it carries the decorated marker.
AtMostOneWrapper ==
  \A i \in 1..Len(els) :
    /\ els[i].wrappers <= 1
    /\ els[i].headers = els[i].wrappers
    /\ (els[i].wrappers = 1) <=> (Decorated \in els[i].preClasses)

\* A decorateCalloutCodeBlock call waits for its read on a <pre> that the
\* post-processor has decorated meanwhile: a second attempt is on its way.
AtMostOneWrapperWitness ==
  \E t \in 1..Len(tasks) :
    /\ tasks[t].kind = "decorateCallout"
    /\ els[tasks[t].root].wrappers = 1
    /\ Pending \in els[tasks[t].root].preClasses

\* C15: the pending marker is released when the attempt that set it is over:
\* a <pre> carries it only while a decorateCalloutCodeBlock call on it waits
\* for its read.
PendingOnlyWhileCallInFlight ==
  \A i \in 1..Len(els) :
    Pending \in els[i].preClasses
      => \E t \in 1..Len(tasks) : tasks[t].kind = "decorateCallout" /\ tasks[t].root = i

(***************************************************************************)
(* The highlighter: its state (src/src/highlighter/state.ts), its          *)
(* registration (src/unnamed/part_003) and the view plugin of the editor   *)
(* extension (src/unnamed/part_005).  The listener of the view plugin of   *)
(* editor i is listener i.                                                 *)
(***************************************************************************)
MaxViews == 2
MaxVersion == 4

Themes == {"monokai-pro", "nord"}
HighlighterSettingsSet == [enabled : BOOLEAN, theme : Themes]
ListenerIds == 1..MaxViews

\* new HighlighterState(settings) (state.ts 13-25); styleTheme is the theme
\* _styleMap and _combinedOverrides were computed for
\* Mutant of incrementDecorationVersion: the counter of the editor extension
\* is incremented and decorationVersion is left as it is.
incrementCurrentVersionOnly(version) == version

\* incrementDecorationVersion (part_005 177-179)
incrementDecorationVersion(version) == version + 1

newHighlighterState(hs) ==
  [active |-> FALSE, settings |-> hs, styleTheme |-> hs.theme, listeners |-> <<>>]

\* what a listener reads from the state when it is invoked
snapshot(st) == [active |-> st.active, theme |-> st.settings.theme, styleTheme |-> st.styleTheme]

\* notifyListeners (state.ts 98-100): the Set's forEach from position k on.
\* A listener of a view plugin increments decorationVersion (part_005
\* 195-198); seen keeps, for each listener, what it saw each time it ran.
RECURSIVE notifyFrom(_, _, _)
notifyFrom(st, k, note) ==
  IF k > Len(st.listeners) THEN note
  ELSE notifyFrom(st, k + 1,
                  [note EXCEPT !.seen[st.listeners[k]] = Append(@, snapshot(st)),
                               !.version = incrementDecorationVersion(@)])

notifyListeners(st, version) ==
  notifyFrom(st, 1, [seen |-> [l \in ListenerIds |-> <<>>], version |-> version])

\* The record of one call: the method, its argument, the state before and
\* after, whether it called getStyleMap and getCombinedOverrides, what the
\* listeners saw, and decorationVersion afterwards.
called(op, arg, before, after, recomputed, note) ==
  [op |-> op, arg |-> arg, before |-> before, state |-> after, recomputed |-> recomputed,
   seen |-> note.seen, version |-> note.version]

\* start() with the listeners notified first
startNotifiesFirst(st, version) ==
  called("start", st.settings, st, [st EXCEPT !.active = TRUE], FALSE,
         notifyListeners(st, version))

\* start() (state.ts 54-57)
start(st, version) ==
  called("start", st.settings, st, [st EXCEPT !.active = TRUE], FALSE,
         notifyListeners([st EXCEPT !.active = TRUE], version))

\* stop() (state.ts 59-62)
stop(st, version) ==
  called("stop", st.settings, st, [st EXCEPT !.active = FALSE], FALSE,
         notifyListeners([st EXCEPT !.active = FALSE], version))

\* updateSettings(newSettings) that leaves the tables as they are
updateSettingsKeepsTables(st, newSettings, version) ==
  called("updateSettings", newSettings, st, [st EXCEPT !.settings = newSettings], FALSE,
         notifyListeners([st EXCEPT !.settings = newSettings], version))

\* updateSettings(newSettings) (state.ts 68-79)
updateSettings(st, newSettings, version) ==
  LET themeChanged == newSettings.theme # "" /\ newSettings.theme # st.settings.theme
      after == [st EXCEPT !.settings = newSettings,
                          !.styleTheme = IF themeChanged THEN newSettings.theme ELSE @]
  IN  called("updateSettings", newSettings, st, after, themeChanged,
             notifyListeners(after, version))

\* reload() (state.ts 81-86); nothing registers a reload callback
reload(st, version) ==
  called("reload", st.settings, st, [st EXCEPT !.styleTheme = st.settings.theme], TRUE,
         notifyListeners([st EXCEPT !.styleTheme = st.settings.theme], version))

\* subscribe(listener) (state.ts 88-91): Set.add
subscribe(st, l) ==
  IF \E k \in 1..Len(st.listeners) : st.listeners[k] = l THEN st
  ELSE [st EXCEPT !.listeners = Append(@, l)]

\* the function subscribe returns: Set.delete
unsubscribe(st, l) == [st EXCEPT !.listeners = SelectSeq(@, LAMBDA x : x # l)]

InitHighlighter ==
  /\ pc = "unloaded"
  /\ ParseIdle /\ NormIdle /\ LocIdle /\ DomIdle /\ RegIdle /\ MoreIdle
  /\ highlighter \in HighlighterSettingsSet
  /\ highlighterState = NoState
  /\ highlighterStyleEl = FALSE
  /\ adoptedStyleSheets = 0
  /\ cleanupRegistered = FALSE
  /\ decorationVersion = 0
  /\ currentVersion = 0
  /\ views = <<>>
  /\ calls = <<>>
  /\ lastUpdate = NoUpdate

\* registerHighlighter (part_003 119-168), called from onload
RegisterHighlighter ==
  /\ pc = "unloaded"
  /\ pc' = "loaded"
  /\ currentVersion' = decorationVersion
  /\ IF ~highlighter.enabled
       THEN /\ highlighterState' = newHighlighterState(highlighter)
            /\ calls' = <<>>
            /\ UNCHANGED <<highlighterStyleEl, adoptedStyleSheets, cleanupRegistered,
                           decorationVersion>>
       ELSE \E started \in {start(newHighlighterState(highlighter), decorationVersion)} :
              /\ highlighterState' = started.state
              /\ decorationVersion' = started.version
              /\ calls' = <<started>>
              /\ highlighterStyleEl' = TRUE
              /\ adoptedStyleSheets' = adoptedStyleSheets + 1
              /\ cleanupRegistered' = TRUE
  /\ lastUpdate' = NoUpdate
  /\ UNCHANGED <<notHlVars, highlighter, views>>

\* The settings tab stores other highlighter settings and calls
\* reloadHighlighter (part_003 181-207).
ReloadHighlighter ==
  /\ pc = "loaded"
  /\ highlighterState # NoState
  /\ \E hs \in HighlighterSettingsSet :
       \E updated \in {updateSettings(highlighterState, hs, decorationVersion)} :
         \E switched \in
              {IF hs.enabled /\ ~updated.state.active
                 THEN <<start(updated.state, updated.version)>>
               ELSE IF ~hs.enabled /\ updated.state.active
                 THEN <<stop(updated.state, updated.version)>>
               ELSE <<>>} :
           /\ highlighter' = hs
           /\ highlighterState' = IF switched = <<>> THEN updated.state ELSE switched[1].state
           /\ decorationVersion' =
                incrementDecorationVersion(IF switched = <<>> THEN updated.version
                                           ELSE switched[1].version)
           /\ decorationVersion' <= MaxVersion
           /\ calls' = <<updated>> \o switched
           /\ IF ~highlighterStyleEl /\ hs.enabled
                THEN /\ highlighterStyleEl' = TRUE
                     /\ adoptedStyleSheets' = adoptedStyleSheets + 1
                ELSE UNCHANGED <<highlighterStyleEl, adoptedStyleSheets>>
  /\ lastUpdate' = NoUpdate
  /\ UNCHANGED <<pc, notHlVars, cleanupRegistered, currentVersion, views>>

\* stopHighlighter (part_003 170-179)
StopHighlighter ==
  /\ pc = "loaded"
  /\ highlighterState # NoState
  /\ \E stopped \in {stop(highlighterState, decorationVersion)} :
       /\ highlighterState' = stopped.state
       /\ decorationVersion' = stopped.version
       /\ decorationVersion' <= MaxVersion
       /\ calls' = <<stopped>>
  /\ highlighterStyleEl' = FALSE
  /\ adoptedStyleSheets' = IF highlighterStyleEl THEN adoptedStyleSheets - 1
                           ELSE adoptedStyleSheets
  /\ lastUpdate' = NoUpdate
  /\ UNCHANGED <<pc, notHlVars, highlighter, cleanupRegistered, currentVersion, views>>

\* getHighlighterState().reload()
ReloadState ==
  /\ pc = "loaded"
  /\ highlighterState # NoState
  /\ \E reloaded \in {reload(highlighterState, decorationVersion)} :
       /\ highlighterState' = reloaded.state
       /\ decorationVersion' = reloaded.version
       /\ decorationVersion' <= MaxVersion
       /\ calls' = <<reloaded>>
  /\ lastUpdate' = NoUpdate
  /\ UNCHANGED <<pc, notHlVars, highlighter, highlighterStyleEl, adoptedStyleSheets,
                 cleanupRegistered, currentVersion, views>>

\* An editor opens: the constructor of the view plugin (part_005 190-200).
\* builtVersion is decorationVersion at the time the decorations were built.
OpenView ==
  /\ pc = "loaded"
  /\ Len(views) < MaxViews
  /\ views' = Append(views, [open |-> TRUE, builtVersion |-> decorationVersion])
  /\ highlighterState' = IF highlighterState = NoState THEN highlighterState
                         ELSE subscribe(highlighterState, Len(views) + 1)
  /\ calls' = <<>>
  /\ lastUpdate' = NoUpdate
  /\ UNCHANGED <<pc, notHlVars, highlighter, highlighterStyleEl, adoptedStyleSheets,
                 cleanupRegistered, decorationVersion, currentVersion>>

\* update(update) of the view plugin of editor i (part_005 202-212)
UpdateView ==
  /\ \E i \in 1..Len(views), docChanged \in BOOLEAN, viewportChanged \in BOOLEAN :
       LET versionChanged == currentVersion # decorationVersion
           rebuild == docChanged \/ viewportChanged \/ versionChanged
       IN  /\ views[i].open
           /\ currentVersion' = IF rebuild THEN decorationVersion ELSE currentVersion
           /\ views' = IF rebuild THEN [views EXCEPT ![i].builtVersion = decorationVersion]
                       ELSE views
           /\ lastUpdate' = [view |-> i, docChanged |-> docChanged,
                             viewportChanged |-> viewportChanged,
                             advanced |-> views[i].builtVersion # decorationVersion,
                             rebuilt |-> rebuild]
  /\ calls' = <<>>
  /\ UNCHANGED <<pc, notHlVars, highlighter, highlighterState, highlighterStyleEl,
                 adoptedStyleSheets, cleanupRegistered, decorationVersion>>

\* destroy() of the view plugin of editor i (part_005 214-218)
DestroyView ==
  /\ \E i \in 1..Len(views) :
       /\ views[i].open
       /\ views' = [views EXCEPT ![i].open = FALSE]
       /\ highlighterState' = IF highlighterState = NoState THEN highlighterState
                              ELSE unsubscribe(highlighterState, i)
  /\ calls' = <<>>
  /\ lastUpdate' = NoUpdate
  /\ UNCHANGED <<pc, notHlVars, highlighter, highlighterStyleEl, adoptedStyleSheets,
                 cleanupRegistered, decorationVersion, currentVersion>>

\* The plugin unloads: the callback of part_003 139-144 runs if
\* registerHighlighter registered it (destroyHighlighterState: state.ts
\* 114-119).
TeardownHighlighter ==
  /\ pc = "loaded"
  /\ pc' = "torn down"
  /\ IF ~cleanupRegistered
       THEN /\ calls' = <<>>
            /\ UNCHANGED <<highlighterState, adoptedStyleSheets, decorationVersion>>
       ELSE /\ adoptedStyleSheets' = IF highlighterStyleEl THEN adoptedStyleSheets - 1
                                     ELSE adoptedStyleSheets
            /\ IF highlighterState = NoState
                 THEN /\ calls' = <<>>
                      /\ UNCHANGED <<highlighterState, decorationVersion>>
                 ELSE \E stopped \in {stop(highlighterState, decorationVersion)} :
                        /\ highlighterState' = NoState
                        /\ decorationVersion' = stopped.version
                        /\ decorationVersion' <= MaxVersion
                        /\ calls' = <<stopped>>
  /\ lastUpdate' = NoUpdate
  /\ UNCHANGED <<notHlVars, highlighter, highlighterStyleEl, cleanupRegistered,
                 currentVersion, views>>

NextHighlighter ==
  \/ RegisterHighlighter
  \/ ReloadHighlighter
  \/ StopHighlighter
  \/ ReloadState
  \/ OpenView
  \/ UpdateView
  \/ DestroyView
  \/ TeardownHighlighter

SpecHighlighter == InitHighlighter /\ [][NextHighlighter]_vars

\* C37: decorationVersion never decreases; a call of reloadHighlighter with
\* a state leaves state.active equal to settings.highlighter.enabled and
\* decorationVersion greater than before; and while at least one editor view
\* is subscribed each notification of the state advances the version, by one
\* for each subscribed view.
VersionOnlyAdvances ==
  /\ [][decorationVersion' >= decorationVersion]_vars
  /\ [][(calls' # <<>> /\ calls'[1].op = "updateSettings")
          => /\ highlighterState'.active = highlighter'.enabled
             /\ decorationVersion' > decorationVersion]_vars
  /\ [][(calls' # <<>> /\ highlighterState # NoState
           /\ Len(highlighterState.listeners) >= 1)
          => /\ decorationVersion' > decorationVersion
             /\ decorationVersion' >=
                  decorationVersion + Len(calls') * Len(highlighterState.listeners)]_vars

\* reloadHighlighter has just switched the highlighter on or off with a view
\* subscribed: two notifications and the increment of its own
VersionOnlyAdvancesWitness ==
  /\ calls # <<>>
  /\ calls[1].op = "updateSettings"
  /\ Len(calls) = 2
  /\ highlighterState # NoState
  /\ Len(highlighterState.listeners) = 1
  /\ highlighterState.active = highlighter.enabled
  /\ decorationVersion >= 3

(***************************************************************************)
(* Claims about the highlighter                                            *)
(***************************************************************************)
\* C16: after decorationVersion advances, every view rebuilds on its own
\* next update, whatever the other views did: right after an update of a
\* view, its decorations are those of the current decorationVersion.
EveryViewRebuildsAfterAdvance ==
  lastUpdate.view # 0 => views[lastUpdate.view].builtVersion = decorationVersion

\* C17: an update with no document change and no viewport change rebuilds
\* the decorations exactly when decorationVersion advanced since this view
\* built them.
RebuildIffVersionAdvanced ==
  (lastUpdate.view # 0 /\ ~lastUpdate.docChanged /\ ~lastUpdate.viewportChanged)
    => (lastUpdate.rebuilt <=> lastUpdate.advanced)

\* C19: after teardown the highlighter's sheet is out of the document and
\* the HighlighterState singleton is destroyed.
TeardownRemovesHighlighter ==
  pc = "torn down" => (adoptedStyleSheets = 0 /\ highlighterState = NoState)

Subscribed(st) == {st.listeners[k] : k \in 1..Len(st.listeners)}

\* the state a call of start, stop, updateSettings or reload leaves
Updated(c) ==
  CASE c.op = "start" -> [c.before EXCEPT !.active = TRUE]
    [] c.op = "stop" -> [c.before EXCEPT !.active = FALSE]
    [] c.op = "updateSettings" -> [c.before EXCEPT !.settings = c.arg, !.styleTheme = c.arg.theme]
    [] c.op = "reload" -> [c.before EXCEPT !.styleTheme = c.before.settings.theme]

\* C20: each call of start, stop, updateSettings or reload invokes every
\* listener subscribed at the call exactly once, with the state already
\* updated, and invokes no listener that was unsubscribed (the listener of
\* a destroyed view plugin).
ListenersNotifiedOnce ==
  \A k \in 1..Len(calls) :
    /\ calls[k].state = Updated(calls[k])
    /\ \A l \in ListenerIds :
         calls[k].seen[l] = IF l \in Subscribed(calls[k].before)
                              THEN <<snapshot(Updated(calls[k]))>>
                              ELSE <<>>
    /\ \A i \in 1..Len(views) : ~views[i].open => calls[k].seen[i] = <<>>

ListenersNotifiedOnceWitness ==
  /\ Len(calls) = 2
  /\ calls[2].op = "start"
  /\ Cardinality(Subscribed(calls[2].before)) = 1
  /\ \E i \in 1..Len(views) : ~views[i].open

(***************************************************************************)
(* registerCodeBlocks (src/src/register.ts 54-335): the timers, the        *)
(* animation-frame request, the scroll listener and the mutation observer  *)
(* it sets up, the events that drive them and the callbacks of the plugin's *)
(* unload.  A timeout is "null" (never set), "pending", or "spent" (fired  *)
(* or cleared: its variable keeps the id).                                 *)
(***************************************************************************)
MaxScrollers == 2
MaxAttempts == 8

Scrollers == 1..MaxScrollers
WorkspaceEvents == {"active-leaf-change", "file-open", "layout-change"}

\* registerCodeBlocks not yet called.  live counts the timers of each kind
\* that the host still holds; last tells what the last step did to them.
Unregistered(enabled) ==
  [enabled |-> enabled, codeBlockStyleEl |-> FALSE, observer |-> "none",
   layoutReady |-> FALSE, calloutScanTimer |-> FALSE, attempts |-> 0,
   calloutScanRaf |-> FALSE, editorChangeDebounce |-> "null",
   calloutScrollDebounce |-> "null", calloutScrollCleanup |-> 0, scrollListeners |-> {},
   live |-> [interval |-> 0, raf |-> 0, scroll |-> 0, editor |-> 0],
   scanned |-> FALSE, last |-> "none"]

\* setInterval, setTimeout, requestAnimationFrame
setTimer(r, kind) == [r EXCEPT !.live[kind] = @ + 1]

\* clearInterval, clearTimeout, cancelAnimationFrame on a handle that is live,
\* and a timeout or animation frame that fires
clearTimer(r, kind) == [r EXCEPT !.live[kind] = IF @ > 0 THEN @ - 1 ELSE 0]

\* if (handle !== null) { clear(handle) }, for a handle that is live or spent
clearIf(isLive, kind, r) == IF isLive THEN clearTimer(r, kind) ELSE r

\* a timer of the kind created when the handle variable held a live one
restarted(r, kind, wasLive) ==
  IF wasLive THEN [setTimer(r, kind) EXCEPT !.last = "restarted"] ELSE setTimer(r, kind)

\* the closure scanCalloutCodeBlocks (162-168); the root is never null (159)
scanActiveRoot(r) == IF r.observer = "none" THEN r ELSE [r EXCEPT !.scanned = TRUE]

\* runCalloutScan (180-185)
runCalloutScan(r, hasCalloutCodeBlocks) ==
  IF ~hasCalloutCodeBlocks THEN r ELSE scanActiveRoot(r)

\* queueCalloutScan (187-195): the pending request is cancelled and replaced
queueCalloutScan(r) ==
  LET cancelled == IF r.calloutScanRaf THEN clearTimer(r, "raf") ELSE r
  IN  [restarted(cancelled, "raf", r.calloutScanRaf) EXCEPT !.calloutScanRaf = TRUE]

\* a loop started without clearing the interval that runs
startLoopKeepingInterval(r, hasCalloutCodeBlocks) ==
  IF ~hasCalloutCodeBlocks
    THEN [(IF r.calloutScanTimer THEN clearTimer(r, "interval") ELSE r)
            EXCEPT !.calloutScanTimer = FALSE]
  ELSE [restarted(r, "interval", r.calloutScanTimer)
          EXCEPT !.calloutScanTimer = TRUE, !.attempts = 0]

\* startCalloutScanLoop (197-235), up to setInterval
startCalloutScanLoop(r, hasCalloutCodeBlocks) ==
  LET cleared == IF r.calloutScanTimer THEN clearTimer(r, "interval") ELSE r
  IN  IF ~hasCalloutCodeBlocks THEN [cleared EXCEPT !.calloutScanTimer = FALSE]
      ELSE [restarted(cleared, "interval", r.calloutScanTimer)
              EXCEPT !.calloutScanTimer = TRUE, !.attempts = 0]

\* a callback that stops after one scan too many
intervalCallbackOneMore(r, allDecorated) ==
  LET scannedOnce ==
        [scanActiveRoot(r) EXCEPT !.attempts = r.attempts + 1,
                                  !.last = IF allDecorated THEN "all decorated"
                                           ELSE "remaining"]
  IN  IF (allDecorated \/ scannedOnce.attempts > MaxAttempts) /\ r.calloutScanTimer
        THEN [clearTimer(scannedOnce, "interval") EXCEPT !.calloutScanTimer = FALSE]
        ELSE scannedOnce

\* the callback of setInterval (210-234); allDecorated: remaining === 0
intervalCallback(r, allDecorated) ==
  LET scannedOnce ==
        [scanActiveRoot(r) EXCEPT !.attempts = r.attempts + 1,
                                  !.last = IF allDecorated THEN "all decorated"
                                           ELSE "remaining"]
  IN  IF (allDecorated \/ scannedOnce.attempts >= MaxAttempts) /\ r.calloutScanTimer
        THEN [clearTimer(scannedOnce, "interval") EXCEPT !.calloutScanTimer = FALSE]
        ELSE scannedOnce

\* attachCalloutScrollListener (240-267); scroller 0: no .cm-scroller
attachCalloutScrollListener(r, scroller) ==
  IF scroller = 0 \/ r.calloutScrollCleanup = scroller THEN r
  ELSE [r EXCEPT !.scrollListeners = (@ \ {r.calloutScrollCleanup}) \cup {scroller},
                 !.calloutScrollCleanup = scroller]

\* the scroll handler (257-264)
scrollHandler(r) ==
  LET pending == r.calloutScrollDebounce = "pending"
      cleared == IF pending THEN clearTimer(r, "scroll") ELSE r
  IN  [restarted(cleared, "scroll", pending) EXCEPT !.calloutScrollDebounce = "pending"]

\* the handler of editor-change (320-334)
editorChangeHandler(r, sourceMode) ==
  LET pending == r.editorChangeDebounce = "pending"
      cleared == IF pending THEN clearTimer(r, "editor") ELSE r
  IN  IF ~sourceMode THEN r
      ELSE [restarted(cleared, "editor", pending) EXCEPT !.editorChangeDebounce = "pending"]

\* the unload callbacks of registerCodeBlocks: 60-67, and 269-286 if the
\* feature is enabled
unload(r) ==
  LET first == [r EXCEPT !.codeBlockStyleEl = FALSE,
                         !.observer = IF @ = "none" THEN @ ELSE "disconnected"]
  IN  IF ~r.enabled THEN first
      ELSE [first EXCEPT !.scrollListeners = @ \ {r.calloutScrollCleanup},
                         !.calloutScrollDebounce = IF @ = "null" THEN @ ELSE "spent",
                         !.calloutScanRaf = FALSE,
                         !.editorChangeDebounce = IF @ = "null" THEN @ ELSE "spent",
                         !.live = clearIf(r.editorChangeDebounce = "pending", "editor",
                                    clearIf(r.calloutScanRaf, "raf",
                                      clearIf(r.calloutScrollDebounce = "pending", "scroll",
                                              r))).live]

\* the state at the start of a step: nothing has run in it yet
stepOf(r) == [r EXCEPT !.scanned = FALSE, !.last = "none"]

InitRegister ==
  /\ pc = "unloaded"
  /\ ParseIdle /\ NormIdle /\ LocIdle /\ DomIdle /\ HlIdle /\ MoreIdle
  /\ reg \in {Unregistered(enabled) : enabled \in BOOLEAN}

\* registerCodeBlocks (54-335), called from onload
RegisterCodeBlocks ==
  /\ pc = "unloaded"
  /\ pc' = "loaded"
  /\ reg' = [reg EXCEPT !.codeBlockStyleEl = TRUE,
                        !.observer = IF reg.enabled THEN "created" ELSE "none"]
  /\ UNCHANGED notRegVars

\* the onLayoutReady callback (288-299)
LayoutReady ==
  /\ pc = "loaded"
  /\ reg.enabled
  /\ ~reg.layoutReady
  /\ \E hasCalloutCodeBlocks \in BOOLEAN, scroller \in {0} \cup Scrollers :
       reg' = attachCalloutScrollListener(
                startCalloutScanLoop([stepOf(reg) EXCEPT !.observer = "observing",
                                                         !.layoutReady = TRUE],
                                     hasCalloutCodeBlocks),
                scroller)
  /\ UNCHANGED <<pc, notRegVars>>

\* active-leaf-change, file-open, layout-change (301-318)
WorkspaceEvent ==
  /\ pc = "loaded"
  /\ reg.enabled
  /\ \E event \in WorkspaceEvents, hasCalloutCodeBlocks \in BOOLEAN,
        scroller \in {0} \cup Scrollers :
       reg' = attachCalloutScrollListener(
                startCalloutScanLoop(stepOf(reg), hasCalloutCodeBlocks), scroller)
  /\ UNCHANGED <<pc, notRegVars>>

\* editor-change (320-334)
EditorChange ==
  /\ pc = "loaded"
  /\ reg.enabled
  /\ \E sourceMode \in BOOLEAN : reg' = editorChangeHandler(stepOf(reg), sourceMode)
  /\ UNCHANGED <<pc, notRegVars>>

\* the timeout of editor-change fires (329-332)
EditorChangeDebounceFires ==
  /\ reg.live.editor > 0
  /\ \E scroller \in {0} \cup Scrollers :
       reg' = attachCalloutScrollListener(
                queueCalloutScan([clearTimer(stepOf(reg), "editor")
                                    EXCEPT !.editorChangeDebounce = "spent"]),
                scroller)
  /\ UNCHANGED <<pc, notRegVars>>

\* a scroller that carries the listener scrolls (257-264)
Scroll ==
  /\ reg.scrollListeners # {}
  /\ reg' = scrollHandler(stepOf(reg))
  /\ UNCHANGED <<pc, notRegVars>>

\* the timeout of the scroll handler fires (261-263)
ScrollDebounceFires ==
  /\ reg.live.scroll > 0
  /\ \E hasCalloutCodeBlocks \in BOOLEAN :
       reg' = startCalloutScanLoop([clearTimer(stepOf(reg), "scroll")
                                      EXCEPT !.calloutScrollDebounce = "spent"],
                                   hasCalloutCodeBlocks)
  /\ UNCHANGED <<pc, notRegVars>>

\* the animation frame of queueCalloutScan arrives (191-194)
AnimationFrame ==
  /\ reg.live.raf > 0
  /\ \E hasCalloutCodeBlocks \in BOOLEAN :
       reg' = runCalloutScan([clearTimer(stepOf(reg), "raf") EXCEPT !.calloutScanRaf = FALSE],
                             hasCalloutCodeBlocks)
  /\ UNCHANGED <<pc, notRegVars>>

\* the interval of startCalloutScanLoop ticks (210-234)
IntervalTick ==
  /\ reg.live.interval > 0
  /\ \E allDecorated \in BOOLEAN : reg' = intervalCallback(stepOf(reg), allDecorated)
  /\ UNCHANGED <<pc, notRegVars>>

\* the mutation observer reports added callout code blocks (decorate.ts
\* 327-362)
Mutation ==
  /\ reg.observer = "observing"
  /\ reg' = scanActiveRoot(stepOf(reg))
  /\ UNCHANGED <<pc, notRegVars>>

\* the plugin unloads: the host drops the event handlers and runs the
\* registered callbacks
TeardownCodeBlocks ==
  /\ pc = "loaded"
  /\ pc' = "torn down"
  /\ reg' = unload(stepOf(reg))
  /\ UNCHANGED notRegVars

NextRegister ==
  \/ RegisterCodeBlocks
  \/ LayoutReady
  \/ WorkspaceEvent
  \/ EditorChange
  \/ EditorChangeDebounceFires
  \/ Scroll
  \/ ScrollDebounceFires
  \/ AnimationFrame
  \/ IntervalTick
  \/ Mutation
  \/ TeardownCodeBlocks

SpecRegister == InitRegister /\ [][NextRegister]_vars

\* C18: after teardown nothing scheduled by registerCodeBlocks remains (no
\* interval, no pending timeout, no animation-frame request, no scroll
\* listener, no connected observer) and no scan runs.
NothingScheduledAfterTeardown ==
  pc = "torn down" =>
    /\ ~reg.calloutScanTimer
    /\ reg.calloutScrollDebounce # "pending"
    /\ reg.editorChangeDebounce # "pending"
    /\ ~reg.calloutScanRaf
    /\ reg.scrollListeners = {}
    /\ reg.observer # "observing"
    /\ ~reg.scanned

\* C21: styleMap and combinedOverrides are the tables of the current
\* settings.theme in every state and after every call; updateSettings
\* recomputes them exactly when the theme changed, reload always, start and
\* stop never.
TablesFollowTheme ==
  /\ highlighterState # NoState =>
       highlighterState.styleTheme = highlighterState.settings.theme
  /\ \A k \in 1..Len(calls) :
       /\ calls[k].state.styleTheme = calls[k].state.settings.theme
       /\ calls[k].recomputed <=>
            \/ calls[k].op = "reload"
            \/ /\ calls[k].op = "updateSettings"
               /\ calls[k].arg.theme # calls[k].before.settings.theme

TablesFollowThemeWitness ==
  /\ highlighterState # NoState
  /\ Len(calls) > 0
  /\ calls[1].op = "updateSettings"
  /\ calls[1].recomputed
  /\ calls[1].before.styleTheme # highlighterState.styleTheme
  /\ calls[1].before.active

\* C22: a read of the source that fails during a callout lookup is caught:
\* no scan and no decorateCalloutCodeBlock call ends with a rejected promise
\* that nothing handles.
FailedReadIsCaught == pc # "unhandled rejection"

(***************************************************************************)
(* Claims about the scans and the passes over decorated blocks             *)
(***************************************************************************)
\* the fence line a scan binds to a callout <pre> (decorate.ts 257-283)
ScanFenceLine(el, index, sourceText) ==
  firstTruthy(fenceLineOfEntries(IF sourceText # <<>>
                                   THEN memo.extractCalloutFenceEntries[sourceText]
                                   ELSE <<>>,
                                 memo.normalizeCodeContentLoose[el.codeText], index),
              fenceLineOfAttribute(el, sourceText))

\* C23: a scan decorates an undecorated callout block: a callout <pre>
\* without marker and wrapper, with code, that a callout entry of the source
\* correlates to and whose language is not ignored carries the decorated
\* marker, a wrapper and a header after the scan.
ScanDecoratesUndecorated ==
  \A i \in 1..Len(els), sourceText \in SourceTexts \ {<<>>} :
    (/\ settings.enabled
     /\ els[i].callout /\ els[i].hasCode
     /\ els[i].wrappers = 0
     /\ els[i].preClasses \cap {Decorated, Pending} = {}
     /\ memo.normalizeCodeContentLoose[els[i].codeText] # <<>>
     /\ truthy(ScanFenceLine(els[i], calloutIndex(els, i), sourceText))
     /\ ResolvedLanguage(els[i],
                         [text |-> sourceText,
                          fenceLine |-> ScanFenceLine(els[i], calloutIndex(els, i), sourceText)])
          \notin settings.ignoreLanguages)
      => LET after == scanCalloutElement(els[i], calloutIndex(els, i), sourceText, settings,
                                         FALSE).el
         IN  Decorated \in after.preClasses /\ after.wrappers = 1 /\ after.headers = 1

\* b is a but for the language and the title its header shows
HeaderOnly(a, b) == b = [a EXCEPT !.wrapperLang = b.wrapperLang, !.headerTitle = b.headerTitle]

\* the header of el shows the language and the title of the fence line
Reflects(el, fenceLineFound) ==
  LET parameters == memo.parseCodeblockParameters[fenceLineFound]
  IN  /\ orElse(el.wrapperLang, <<>>) = parameters.language
      /\ IF truthy(parameters.title) THEN el.headerTitle = parameters.title
         ELSE ~truthy(el.headerTitle)

\* C24: on a decorated <pre> with its wrapper and header, a post-processor
\* pass and a scan change nothing but the language and the title the header
\* shows (no new wrapper, header or gutter, the marker stays), and when the
\* pass reaches the block and resolves a fence line, the header shows that
\* line's language and title, or no title if the line has none.
PassOnlyUpdatesHeader ==
  \A i \in DecoratedEls, iconsThrow \in BOOLEAN :
    (els[i].wrappers = 1 /\ els[i].headers = 1) =>
      /\ HeaderOnly(els[i], postProcessElement(els[i], settings, iconsThrow))
      /\ (/\ els[i].hasCode
          /\ els[i].langClass \notin settings.ignoreLanguages
          /\ truthy(postProcessorFenceLine(els[i], settings.languages)))
           => Reflects(postProcessElement(els[i], settings, iconsThrow),
                       postProcessorFenceLine(els[i], settings.languages))
      /\ \A sourceText \in SourceTexts :
           LET index == calloutIndex(els, i)
               after == scanCalloutElement(els[i], index, sourceText, settings, iconsThrow).el
           IN  els[i].callout =>
                 /\ HeaderOnly(els[i], after)
                 /\ (/\ els[i].hasCode
                     /\ memo.normalizeCodeContentLoose[els[i].codeText] # <<>>
                     /\ truthy(ScanFenceLine(els[i], index, sourceText)))
                      => Reflects(after, ScanFenceLine(els[i], index, sourceText))

\* A decorated callout block whose header shows a title, and a scan over a
\* source where the title has been removed: the header loses it.
PassOnlyUpdatesHeaderWitness ==
  \E i \in DecoratedEls :
    /\ els[i].callout /\ els[i].wrappers = 1 /\ els[i].headers = 1
    /\ truthy(els[i].headerTitle)
    /\ truthy(ScanFenceLine(els[i], calloutIndex(els, i), SourceCalloutPlain))
    /\ ~truthy(scanCalloutElement(els[i], calloutIndex(els, i), SourceCalloutPlain, settings,
                                  FALSE).el.headerTitle)


(***************************************************************************)
(* Claims about the fence line a scan binds to a callout <pre>             *)
(***************************************************************************)
\* the entries of the source whose loose-normalized content is the block's
SameContent(entries, code) ==
  {k \in 1..Len(entries) : normalizeCodeContentLoose(entries[k].content) = code}

\* C25: the fence line a scan binds to the callout <pre> at index i is that
\* of the first entry whose loose-normalized content equals the block's
\* loose-normalized code text; without such an entry that of the entry at
\* index i when there is one; otherwise that of the only entry when the
\* source has exactly one; otherwise none.
BindingFollowsPriority ==
  pc = "bound" =>
    LET entries == docEntries(doc)
        code == normalizeCodeContentLoose(targetText)
        same == SameContent(entries, code)
    IN  IF same # {}
          THEN \E k \in same :
                 /\ \A j \in same : k <= j
                 /\ result = entries[k].fenceLine
        ELSE IF lineHint < Len(entries) THEN result = entries[lineHint + 1].fenceLine
        ELSE IF Len(entries) = 1 THEN result = entries[1].fenceLine
        ELSE result = null

\* a block bound by its content although another entry sits at its index
BindingFollowsPriorityWitness ==
  /\ pc = "bound"
  /\ LET entries == docEntries(doc)
         same == SameContent(entries, normalizeCodeContentLoose(targetText))
     IN  /\ same # {}
         /\ lineHint < Len(entries)
         /\ lineHint + 1 \notin same
         /\ entries[lineHint + 1].fenceLine # result
         /\ \E k \in same : result = entries[k].fenceLine


(***************************************************************************)
(* Claims about the timers of registerCodeBlocks                           *)
(***************************************************************************)
\* the poll loop takes a turn whenever its interval stays live
SpecRegisterFair == SpecRegister /\ WF_vars(IntervalTick)

\* C26: every poll loop ends: while its interval is live it has scanned
\* fewer than 8 times, a tick that leaves no callout <pre> without the
\* decorated marker clears the interval, and a loop that has scanned n times
\* is in the end stopped, restarted or has scanned once more.
PollLoopTerminates ==
  /\ [](/\ reg.attempts <= MaxAttempts
        /\ reg.live.interval > 0 => reg.attempts < MaxAttempts
        /\ reg.last = "all decorated" => reg.live.interval = 0
        /\ reg.last \in {"all decorated", "remaining"} => reg.attempts > 0)
  /\ \A n \in 0..(MaxAttempts - 1) :
       (reg.live.interval > 0 /\ reg.attempts = n)
         ~> (reg.live.interval = 0 \/ reg.attempts # n)

\* a loop let run until its eighth scan, which found blocks still to decorate
PollLoopTerminatesWitness ==
  /\ reg.last = "remaining"
  /\ reg.attempts = MaxAttempts
  /\ reg.live.interval = 0
  /\ reg.scanned

\* C27: the host never holds more than one callout scan interval, one
\* animation-frame request, one scroll timeout and one editor-change timeout
\* of registerCodeBlocks, and each handle variable tells whether its timer is
\* live.
AtMostOneTimerOfEachKind ==
  /\ reg.live.interval <= 1
  /\ reg.live.raf <= 1
  /\ reg.live.scroll <= 1
  /\ reg.live.editor <= 1
  /\ reg.calloutScanTimer <=> reg.live.interval = 1
  /\ reg.calloutScanRaf <=> reg.live.raf = 1
  /\ reg.calloutScrollDebounce = "pending" <=> reg.live.scroll = 1
  /\ reg.editorChangeDebounce = "pending" <=> reg.live.editor = 1

\* a poll loop started while the previous one was running, with the other
\* three timers pending
AtMostOneTimerWitness ==
  /\ reg.last = "restarted"
  /\ reg.live = [interval |-> 1, raf |-> 1, scroll |-> 1, editor |-> 1]
  /\ reg.attempts = 0


(***************************************************************************)
(* Claims about the gutter and the highlighted lines                       *)
(***************************************************************************)
LnOf == doc[1]
HlOf == doc[2]
LineCount == doc[3].lineCount

\* the line numbers are shown: the directive decides, else the setting
GutterShown ==
  /\ ~els[1].callout
  /\ \/ LnOf.enabled = "true"
     \/ LnOf.enabled = "null" /\ settings.showLineNumbers

\* the entries of a text joined with sep
Entries(joined, sep) == IF joined = <<>> THEN <<>> ELSE split(joined, sep)

AllDigits(s) == s # <<>> /\ \A k \in 1..Len(s) : s[k] \in Digits

\* C28: when line numbers are shown for a block of lineCount lines with
\* parsed offset o, the gutter holds exactly lineCount labels and the i-th
\* label (from 0) is the number i + o, also for ln:0.
GutterLabelsFollowOffset ==
  (pc = "decorated" /\ GutterShown) =>
    LET labels == Entries(els[1].gutterText, "\n")
    IN  /\ els[1].gutters = 1
        /\ els[1].gutterText # null
        /\ Len(labels) = LineCount
        /\ \A i \in 0..(LineCount - 1) :
             /\ AllDigits(labels[i + 1])
             /\ parseInt(labels[i + 1]) = i + LnOf.offset

\* the offset processCodeBlockLines counts with: the offset of the
\* directive, and 1 for an offset of 0 (decorate.ts 149)
OffsetInUse == IF LnOf.offset = 0 THEN 1 ELSE LnOf.offset

HighlightedIndices == {i \in 0..(LineCount - 1) : i + OffsetInUse \in HlOf.lines}

CalloutGetsNoGutterNoHighlights ==
  (pc = "decorated" /\ els[1].callout) =>
    /\ els[1].wrappers = 1
    /\ els[1].headers = 1
    /\ Decorated \in els[1].preClasses
    /\ els[1].gutters = 0
    /\ els[1].gutterText = null
    /\ els[1].highlightLines = null
    /\ "sf-codeblock-with-gutter" \notin els[1].preClasses
    /\ els[1].codeClasses = {}

\* a callout block with ln:2, a highlighted line and the setting on
CalloutNoGutterWitness ==
  /\ pc = "decorated"
  /\ els[1].callout
  /\ LnOf.offset = 2
  /\ HighlightedIndices # {}
  /\ settings.showLineNumbers
  /\ els[1].wrappers = 1

(***************************************************************************)
(* The copy button: copyCodeToClipboard (src/src/header.ts)                *)
(***************************************************************************)
MaxCopies == 4

\* The button as createCodeBlockHeader makes it (header.ts 279-283), with the
\* clipboard writes awaited, the reset timers pending and the notices shown.
NewButton ==
  [copied |-> "false", icon |-> "copy", writes |-> 0, timers |-> 0, notices |-> 0,
   clicks |-> 0, last |-> "created"]

\* copyCodeToClipboard up to its await (header.ts 326-331)
copyCodeToClipboard(b) ==
  [b EXCEPT !.writes = @ + 1, !.clicks = @ + 1, !.last = "click"]

\* Mutant of writeRejected: the button is marked before the write is awaited.
writeRejectedAfterMarking(b) ==
  [b EXCEPT !.writes = @ - 1, !.copied = "true", !.icon = "check", !.notices = @ + 1,
            !.last = "failed"]

\* the catch block (header.ts 339-342)
writeRejected(b) ==
  [b EXCEPT !.writes = @ - 1, !.notices = @ + 1, !.last = "failed"]

\* after the await (header.ts 332-338): the button is marked and a timer set
writeResolved(b) ==
  [b EXCEPT !.writes = @ - 1, !.copied = "true", !.icon = "check", !.timers = @ + 1,
            !.last = "copied"]

\* the callback of setTimeout (header.ts 335-338)
resetCallback(b) ==
  [b EXCEPT !.timers = @ - 1, !.copied = "false", !.icon = "copy", !.last = "reset"]

InitCopy ==
  /\ pc = "copying"
  /\ ParseIdle /\ NormIdle /\ LocIdle /\ DomIdle /\ HlIdle /\ RegIdle /\ EdIdle
  /\ copyBtn = NewButton

\* a click on the button (widgets.ts 105-131, decorate.ts 119-125)
CopyClick ==
  /\ pc = "copying"
  /\ copyBtn.clicks < MaxCopies
  /\ copyBtn' = copyCodeToClipboard(copyBtn)
  /\ UNCHANGED <<pc, edVars, parseVars, normVars, locVars, domVars, hlVars, regVars>>

\* navigator.clipboard.writeText resolves
WriteResolves ==
  /\ pc = "copying"
  /\ copyBtn.writes > 0
  /\ copyBtn' = writeResolved(copyBtn)
  /\ UNCHANGED <<pc, edVars, parseVars, normVars, locVars, domVars, hlVars, regVars>>

\* navigator.clipboard.writeText rejects
WriteRejects ==
  /\ pc = "copying"
  /\ copyBtn.writes > 0
  /\ copyBtn' = writeRejected(copyBtn)
  /\ UNCHANGED <<pc, edVars, parseVars, normVars, locVars, domVars, hlVars, regVars>>

\* the oldest pending timer fires, 2000 ms after it was set
ResetTimerFires ==
  /\ pc = "copying"
  /\ copyBtn.timers > 0
  /\ copyBtn' = resetCallback(copyBtn)
  /\ UNCHANGED <<pc, edVars, parseVars, normVars, locVars, domVars, hlVars, regVars>>

NextCopy == CopyClick \/ WriteResolves \/ WriteRejects \/ ResetTimerFires

SpecCopy == InitCopy /\ [][NextCopy]_vars

\* a timer the host has set fires
SpecCopyFair == SpecCopy /\ WF_vars(ResetTimerFires)

\* C36: a copy that succeeds while a reset timer is pending adds its own timer
\* and cancels none; a timer that fires while another is pending puts the
\* button back to idle with that other timer still pending; a button showing
\* "copied" always has a timer pending and is idle again in the end; a write
\* that fails changes neither the button nor the timers.
CopyButtonRace ==
  /\ [][(copyBtn'.last = "copied" /\ copyBtn.timers > 0)
          => (copyBtn'.timers = copyBtn.timers + 1 /\ copyBtn'.copied = "true")]_vars
  /\ [][(copyBtn'.last = "reset" /\ copyBtn.timers > 1)
          => (copyBtn'.copied = "false" /\ copyBtn'.icon = "copy"
              /\ copyBtn'.timers = copyBtn.timers - 1)]_vars
  /\ [][copyBtn'.last = "failed"
          => (copyBtn'.copied = copyBtn.copied /\ copyBtn'.icon = copyBtn.icon
              /\ copyBtn'.timers = copyBtn.timers
              /\ copyBtn'.notices = copyBtn.notices + 1)]_vars
  /\ [](copyBtn.copied = "true" => copyBtn.timers > 0)
  /\ (copyBtn.copied = "true") ~> (copyBtn.copied = "false")

\* two copies have succeeded, the first timer has fired and put the button
\* back to idle, and the timer of the second copy is still pending
CopyButtonRaceWitness ==
  /\ copyBtn # NoButton
  /\ copyBtn.clicks = 2
  /\ copyBtn.writes = 0
  /\ copyBtn.notices = 0
  /\ copyBtn.last = "reset"
  /\ copyBtn.copied = "false"
  /\ copyBtn.timers = 1

====
